---------------------------- MODULE Spec2Model ----------------------------
(***************************************************************************)
(* Procedural vegetation placement (RandomGenerator.h) and the chunked     *)
(* instance streaming of Rocks.h / HybridGrassField.h, driven by the frame *)
(* loop of Game.cpp.                                                       *)
(*                                                                         *)
(* Numbers.  The program computes in float; the model computes in          *)
(* integers.  Lengths of the generator are counted in units of 0.5 m, so   *)
(* the 0.5 m finite-difference step of isValidTerrainLocation is 1 unit    *)
(* and the 1 m world border is 2 units.  Scales are counted in halves      *)
(* (scale 2 is 1.0), probabilities and noise values in thousandths.        *)
(***************************************************************************)
EXTENDS Integers, Sequences, FiniteSets, TLC

VARIABLES
    \* ---- VegetationGenerator (RandomGenerator.h:542-552) ----
    genPc,          \* position inside generate(): "idle", "placing", "cluster", "done"
    genArgs,        \* arguments of the current / last generate() call
    rng,            \* std::mt19937 rng
    noise,          \* NoiseGenerator noise (its permutation table)
    spatialGrid,    \* SpatialHashGrid spatialGrid
    grassItems,     \* std::vector<VegetationItem> grassItems
    rockItems,      \* std::vector<VegetationItem> rockItems
    spawnPoints,    \* the local spawnPoints of generate()
    pointIdx,       \* index of the next spawn point of the loop of generate()
    cluster,        \* loop state of generateCluster()
    prevRun,        \* history: arguments and output of the previous finished call
    lastQuery,      \* history: the last call of spatialGrid.checkOverlap
    lastPlace,      \* history: the tryPlaceItem call of the last loop iteration
    rocks,          \* the Rocks object
    grass,          \* the HybridGrassField object
    framePc,        \* where WinMain stands: set-up, or a point of the game loop
    gameStarted,    \* bool gameStarted
    hasRocks,       \* bool hasRocks
    hasGrass,       \* bool hasGrass
    lakeInitialized,\* Lake::initialized
    camPos,         \* Vec3 camPos, also the position the frame is rendered from
    frameIndex,     \* swapchain->GetCurrentBackBufferIndex()
    cmdLists,       \* draw calls recorded in graphicsCommandList[0..1]
    gpuQueue,       \* command lists submitted to graphicsQueue, not yet executed
    fenceValue,     \* GPUFence::value of graphicsQueueFence[0..1]
    fenceCompleted, \* fence->GetCompletedValue() of graphicsQueueFence[0..1]
    frameLog,       \* history: what the rock pipeline did since beginFrame
    modelState,     \* the modelState object of WinMain (modelState.h:199-212)
    gunAnim,        \* AnimationInstance gunAnim
    lastUpdate,     \* history: the last modelState::update call and the reload it belongs to
    rockInstances,  \* std::vector<RockInstance> rockInstances of WinMain, the colliders
    lastMove        \* history: the last movement step of the game loop

genVars == <<genPc, genArgs, rng, noise, spatialGrid, grassItems, rockItems,
             spawnPoints, pointIdx, cluster, prevRun, lastQuery, lastPlace>>
fieldVars == <<rocks, grass>>
frameVars == <<framePc, gameStarted, hasRocks, hasGrass, lakeInitialized, camPos,
               frameIndex, cmdLists, gpuQueue, fenceValue, fenceCompleted, frameLog>>

playerVars == <<modelState, gunAnim, lastUpdate, rockInstances, lastMove>>

vars == <<genVars, fieldVars, frameVars, playerVars>>

---------------------------------------------------------------------------
(* Bounds of the model. *)

\* seeds passed to generate() range over 0..MaxSeed (0 asks for a random seed)
MaxSeed == 2
\* half of the world extent along X, in units; the world is a strip whose
\* extent along Z is a quarter of that
HalfX == 12
HalfZ == HalfX \div 4
\* size of the permutation table of the noise generator (256 in the program)
PermSize == 8

---------------------------------------------------------------------------
(* Arithmetic helpers. *)

Max(a, b) == IF a >= b THEN a ELSE b
Min(a, b) == IF a <= b THEN a ELSE b
Clamp(v, lo, hi) == IF v < lo THEN lo ELSE IF hi < v THEN hi ELSE v
\* (int) conversion of a quotient: truncation toward zero
TruncDiv(a, b) == IF a >= 0 THEN a \div b ELSE -((-a) \div b)
\* ceil of a quotient of a non-negative number by a positive one
CeilDiv(a, b) == (a + b - 1) \div b

RECURSIVE Pow(_, _)
Pow(b, e) == IF e = 0 THEN 1 ELSE b * Pow(b, e - 1)

SeqSwap(s, i, j) == [s EXCEPT ![i] = s[j], ![j] = s[i]]

---------------------------------------------------------------------------
(* std::mt19937 and the distributions drawn from it.  The generator is a   *)
(* deterministic function of its state; the model uses a small linear      *)
(* congruential generator in its place.  Every draw advances the state     *)
(* once and reads the new state.                                           *)

RngSeed(seed) == (seed * 7919 + 13) % 65537
RngStep(st) == (st * 75 + 74) % 65537
\* uniform_int_distribution<int>(lo, hi), read from the advanced state st
UniformInt(st, lo, hi) == IF hi > lo THEN lo + (st % (hi - lo + 1)) ELSE lo
\* uniform_real_distribution<float>(lo, hi): a value of [lo, hi)
UniformReal(st, lo, hi) == IF hi > lo THEN lo + (st % (hi - lo)) ELSE lo
\* uniform_real_distribution<float>(0, 1) in thousandths
Rand01(st) == st % 1000

\* std::shuffle(first, last, rng): returns [seq, rng]
RECURSIVE ShuffleFrom(_, _, _)
ShuffleFrom(s, i, st) ==
    IF i <= 1 THEN [seq |-> s, rng |-> st]
    ELSE LET st1 == RngStep(st)
             j == UniformInt(st1, 1, i)
         IN ShuffleFrom(SeqSwap(s, i, j), i - 1, st1)
Shuffle(s, st) == ShuffleFrom(s, Len(s), st)

---------------------------------------------------------------------------
(* NoiseGenerator (RandomGenerator.h:178-252).  The table has PermSize      *)
(* entries, duplicated once; coordinates are rationals n/den, values are   *)
(* thousandths.                                                            *)

\* NoiseGenerator(seed): identity permutation shuffled by an own generator
NoiseGenerator(seed) ==
    LET ident == [i \in 1..PermSize |-> i - 1]
        sh == Shuffle(ident, RngSeed(seed)).seq
    IN [i \in 0..(2 * PermSize - 1) |-> sh[(i % PermSize) + 1]]

\* fade(t) = t^3 (t (6t - 15) + 10) for t = f/den
Fade(f, den) ==
    (1000 * (f * f * f * (f * (6 * f - 15 * den) + 10 * den * den)))
        \div (den * den * den * den * den)
Lerp(t, a, b) == a + ((t * (b - a)) \div 1000)
Grad(hash, x, y) ==
    LET h == hash % 4
        u == IF h < 2 THEN x ELSE y
        v == IF h < 2 THEN y ELSE x
    IN (IF h % 2 = 1 THEN -u ELSE u) + (IF h >= 2 THEN -2 * v ELSE 2 * v)

Noise2D(perm, nx, ny, den) ==
    LET X == (nx \div den) % PermSize
        Y == (ny \div den) % PermSize
        fx == nx - den * (nx \div den)
        fy == ny - den * (ny \div den)
        x == (1000 * fx) \div den
        y == (1000 * fy) \div den
        u == Fade(fx, den)
        v == Fade(fy, den)
        A == perm[X] + Y
        AA == perm[A]
        AB == perm[A + 1]
        B == perm[X + 1] + Y
        BA == perm[B]
        BB == perm[B + 1]
    IN Lerp(v,
            Lerp(u, Grad(perm[AA], x, y), Grad(perm[BA], x - 1000, y)),
            Lerp(u, Grad(perm[AB], x, y - 1000), Grad(perm[BB], x - 1000, y - 1000)))

\* fbm with persistence 0.5: octave i has frequency 2^i and amplitude 2^-i
RECURSIVE FbmTotal(_, _, _, _, _, _)
FbmTotal(perm, nx, ny, den, octaves, i) ==
    IF i >= octaves THEN 0
    ELSE Noise2D(perm, nx * Pow(2, i), ny * Pow(2, i), den) * Pow(2, octaves - 1 - i)
         + FbmTotal(perm, nx, ny, den, octaves, i + 1)
Fbm(perm, nx, ny, den, octaves) ==
    FbmTotal(perm, nx, ny, den, octaves, 0) \div (Pow(2, octaves) - 1)

---------------------------------------------------------------------------
(* The terrain collaborator: HeightmapTerrain::sampleHeightWorld.  The      *)
(* height map has one sample per unit, so the bilinear sample at a whole   *)
(* coordinate is the stored height; coordinates are clamped to the world.  *)

SizeX == 2 * HalfX
SizeZ == 2 * HalfZ

\* a terrain pointer: "none" is nullptr
Terrains == {"none", "flat", "ridge"}

\* stored heights: flat is 0 everywhere; ridge is a plain, a steep ramp of
\* three columns right of the middle of the world, and a plateau of height 9
HeightAt(ter, ix, iz) ==
    IF ter = "ridge"
    THEN IF ix < HalfX + 4 THEN 0
         ELSE IF ix < HalfX + 7 THEN 3 * (ix - HalfX - 3)
         ELSE 9
    ELSE 0

SampleHeightWorld(ter, x, z) ==
    HeightAt(ter, Clamp(x + HalfX, 0, SizeX), Clamp(z + HalfZ, 0, SizeZ))

\* atan(sqrt(q)/2) in whole degrees, q = (h1-h2)^2 + (h3-h4)^2
AtanDeg(q) ==
    IF q = 0 THEN 0 ELSE IF q = 1 THEN 26 ELSE IF q = 2 THEN 35
    ELSE IF q = 3 THEN 40 ELSE IF q = 4 THEN 45 ELSE IF q < 7 THEN 48
    ELSE IF q < 9 THEN 52 ELSE IF q < 12 THEN 56 ELSE IF q < 16 THEN 60
    ELSE IF q < 36 THEN 63 ELSE IF q < 100 THEN 71 ELSE 78

\* the slope angle of isValidTerrainLocation (central differences, delta = 1 unit)
SlopeAngle(ter, x, z) ==
    LET h1 == SampleHeightWorld(ter, x + 1, z)
        h2 == SampleHeightWorld(ter, x - 1, z)
        h3 == SampleHeightWorld(ter, x, z + 1)
        h4 == SampleHeightWorld(ter, x, z - 1)
    IN AtanDeg((h1 - h2) * (h1 - h2) + (h3 - h4) * (h3 - h4))

\* slope-blind variant: only the height range is tested
IsValidTerrainLocation_HeightOnly(cfg, ter, x, z) ==
    IF ter = "none" THEN TRUE
    ELSE LET height == SampleHeightWorld(ter, x, z)
         IN ~(height < cfg.minHeight \/ height > cfg.maxHeight)

\* height-blind variant: only the slope range is tested
IsValidTerrainLocation_SlopeOnly(cfg, ter, x, z) ==
    IF ter = "none" THEN TRUE
    ELSE LET slopeAngle == SlopeAngle(ter, x, z)
         IN ~(slopeAngle < cfg.minSlope \/ slopeAngle > cfg.maxSlope)

IsValidTerrainLocation(cfg, ter, x, z) ==
    IF ter = "none" THEN TRUE
    ELSE LET height == SampleHeightWorld(ter, x, z)
             slopeAngle == SlopeAngle(ter, x, z)
         IN IF height < cfg.minHeight \/ height > cfg.maxHeight THEN FALSE
            ELSE IF slopeAngle < cfg.minSlope \/ slopeAngle > cfg.maxSlope THEN FALSE
            ELSE TRUE

---------------------------------------------------------------------------
(* VegetationConfig values the model draws from.  Lengths in units (0.5 m),*)
(* scales in halves, probabilities and noise influence in thousandths,     *)
(* noiseCell = 1/noiseScale, densitySpacing = 1/sqrt(density) (0 when the  *)
(* density is not positive), slopes in degrees.                            *)

CfgMeadow ==
    [ name |-> "meadow",
      minPointSpacing |-> 6, densitySpacing |-> 4,
      rockProbability |-> 150, noiseInfluence |-> 400, noiseCell |-> 5,
      grassMinScale |-> 2, grassMaxScale |-> 4, grassRadius |-> 2,
      grassCluster |-> [probability |-> 600, minItems |-> 2, maxItems |-> 3,
                        radius |-> 8, falloff |-> 2],
      rockMinScale |-> 1, rockMaxScale |-> 4, rockRadius |-> 2,
      rockCluster |-> [probability |-> 400, minItems |-> 2, maxItems |-> 3,
                       radius |-> 8, falloff |-> 2],
      minSlope |-> 0, maxSlope |-> 50, minHeight |-> -2000, maxHeight |-> 2000 ]

\* large rocks on a small base radius: rockRadius 0.5, rock scales 3.0 to 5.0
\* (the Rocky preset also has rockMaxScale above 2)
CfgBoulder ==
    [ name |-> "boulder",
      minPointSpacing |-> 6, densitySpacing |-> 3,
      rockProbability |-> 800, noiseInfluence |-> 300, noiseCell |-> 5,
      grassMinScale |-> 2, grassMaxScale |-> 3, grassRadius |-> 1,
      grassCluster |-> [probability |-> 300, minItems |-> 2, maxItems |-> 3,
                        radius |-> 6, falloff |-> 1],
      rockMinScale |-> 6, rockMaxScale |-> 10, rockRadius |-> 1,
      rockCluster |-> [probability |-> 300, minItems |-> 2, maxItems |-> 3,
                       radius |-> 10, falloff |-> 2],
      minSlope |-> 0, maxSlope |-> 50, minHeight |-> -2000, maxHeight |-> 2000 ]

\* grass only: rockProbability 0 and no clusters, on a dense grid of points
CfgLawn ==
    [ name |-> "lawn",
      minPointSpacing |-> 1, densitySpacing |-> 3,
      rockProbability |-> 0, noiseInfluence |-> 0, noiseCell |-> 5,
      grassMinScale |-> 2, grassMaxScale |-> 3, grassRadius |-> 1,
      grassCluster |-> [probability |-> 0, minItems |-> 2, maxItems |-> 3,
                        radius |-> 6, falloff |-> 1],
      rockMinScale |-> 2, rockMaxScale |-> 3, rockRadius |-> 1,
      rockCluster |-> [probability |-> 0, minItems |-> 2, maxItems |-> 3,
                       radius |-> 6, falloff |-> 1],
      minSlope |-> 0, maxSlope |-> 50, minHeight |-> -2000, maxHeight |-> 2000 ]

\* the meadow restricted to heights of 100 m to 200 m
CfgHigh == [ CfgMeadow EXCEPT !.name = "high", !.minHeight = 200, !.maxHeight = 400 ]

\* small plants in wide clusters: every spawn point becomes a cluster
CfgGrove ==
    [ name |-> "grove",
      minPointSpacing |-> 8, densitySpacing |-> 4,
      rockProbability |-> 300, noiseInfluence |-> 0, noiseCell |-> 5,
      grassMinScale |-> 2, grassMaxScale |-> 2, grassRadius |-> 1,
      grassCluster |-> [probability |-> 1000, minItems |-> 3, maxItems |-> 4,
                        radius |-> 6, falloff |-> 1],
      rockMinScale |-> 2, rockMaxScale |-> 2, rockRadius |-> 1,
      rockCluster |-> [probability |-> 1000, minItems |-> 3, maxItems |-> 4,
                       radius |-> 6, falloff |-> 1],
      minSlope |-> 0, maxSlope |-> 50, minHeight |-> -2000, maxHeight |-> 2000 ]

Configs == {CfgMeadow, CfgBoulder, CfgLawn, CfgHigh, CfgGrove}

\* the (terrain, config) pairs generate() is called with
GenRuns ==
    { <<"none", CfgMeadow>>, <<"ridge", CfgMeadow>>, <<"flat", CfgBoulder>>,
      <<"ridge", CfgBoulder>>, <<"flat", CfgLawn>>, <<"flat", CfgHigh>>,
      <<"flat", CfgGrove>> }

---------------------------------------------------------------------------
(* SpatialHashGrid (RandomGenerator.h:91-175). *)

VegetationItem(x, y, z, rotationY, scale, typeIndex, type, radius) ==
    [ x |-> x, y |-> y, z |-> z, rotationY |-> rotationY, scale |-> scale,
      typeIndex |-> typeIndex, type |-> type, radius |-> radius ]

\* the member initialisers of a default-constructed grid (cellSize 5.0)
GridDefault ==
    [ cellSize |-> 10, offsetX |-> 0, offsetZ |-> 0,
      gridWidth |-> 0, gridHeight |-> 0, cells |-> << >> ]

\* init(worldSizeX, worldSizeZ, cellSize); the offsets are half the world sizes
GridInit(halfX, halfZ, cellSize) ==
    LET w == CeilDiv(2 * halfX, cellSize) + 1
        h == CeilDiv(2 * halfZ, cellSize) + 1
    IN [ cellSize |-> cellSize, offsetX |-> halfX, offsetZ |-> halfZ,
         gridWidth |-> w, gridHeight |-> h,
         cells |-> [i \in 1..(w * h) |-> << >>] ]

\* getCellIndex: -1 when out of bounds
GetCellIndex(grid, x, z) ==
    LET cellX == TruncDiv(x + grid.offsetX, grid.cellSize)
        cellZ == TruncDiv(z + grid.offsetZ, grid.cellSize)
    IN IF cellX < 0 \/ cellX >= grid.gridWidth \/ cellZ < 0 \/ cellZ >= grid.gridHeight
       THEN -1
       ELSE cellZ * grid.gridWidth + cellX

\* an insert that stores nothing
GridInsert_Drop(grid, item) == grid

GridInsert(grid, item) ==
    LET cellIdx == GetCellIndex(grid, item.x, item.z)
    IN IF cellIdx >= 0 /\ cellIdx < Len(grid.cells)
       THEN [grid EXCEPT !.cells[cellIdx + 1] = Append(@, item)]
       ELSE grid

Overlaps(item, x, z, radius) ==
    LET distX == item.x - x
        distZ == item.z - z
        minDist == item.radius + radius
    IN distX * distX + distZ * distZ < minDist * minDist

\* the scan of the candidate's own cell only
CheckOverlap_CenterCellOnly(grid, x, z, radius) ==
    LET cellX == TruncDiv(x + grid.offsetX, grid.cellSize)
        cellZ == TruncDiv(z + grid.offsetZ, grid.cellSize)
    IN /\ ~(cellX < 0 \/ cellX >= grid.gridWidth \/ cellZ < 0 \/ cellZ >= grid.gridHeight)
       /\ LET cell == grid.cells[cellZ * grid.gridWidth + cellX + 1]
          IN \E k \in 1..Len(cell) : Overlaps(cell[k], x, z, radius)

CheckOverlap(grid, x, z, radius) ==
    LET centerCellX == TruncDiv(x + grid.offsetX, grid.cellSize)
        centerCellZ == TruncDiv(z + grid.offsetZ, grid.cellSize)
    IN \E dz \in -1..1, dx \in -1..1 :
          LET cellX == centerCellX + dx
              cellZ == centerCellZ + dz
          IN /\ ~(cellX < 0 \/ cellX >= grid.gridWidth
                  \/ cellZ < 0 \/ cellZ >= grid.gridHeight)
             /\ LET cell == grid.cells[cellZ * grid.gridWidth + cellX + 1]
                IN \E k \in 1..Len(cell) : Overlaps(cell[k], x, z, radius)

\* the types of the stored items the scan of checkOverlap finds overlapping
OverlappingTypes(grid, x, z, radius) ==
    LET centerCellX == TruncDiv(x + grid.offsetX, grid.cellSize)
        centerCellZ == TruncDiv(z + grid.offsetZ, grid.cellSize)
        scanned == { c \in 1..Len(grid.cells) :
                        \E dz \in -1..1, dx \in -1..1 :
                           LET cellX == centerCellX + dx
                               cellZ == centerCellZ + dz
                           IN /\ ~(cellX < 0 \/ cellX >= grid.gridWidth
                                   \/ cellZ < 0 \/ cellZ >= grid.gridHeight)
                              /\ c = cellZ * grid.gridWidth + cellX + 1 }
        items == UNION { { grid.cells[c][k] : k \in 1..Len(grid.cells[c]) } : c \in scanned }
    IN { item.type : item \in { i \in items : Overlaps(i, x, z, radius) } }

\* no call of checkOverlap yet
NoQuery ==
    [ called |-> FALSE, x |-> 0, z |-> 0, radius |-> 0, type |-> "Grass",
      result |-> FALSE, blockers |-> {} ]

\* the record of the call checkOverlap(x, z, radius) for a candidate of a type
QueryRecord(grid, x, z, radius, type) ==
    [ called |-> TRUE, x |-> x, z |-> z, radius |-> radius, type |-> type,
      result |-> CheckOverlap(grid, x, z, radius),
      blockers |-> OverlappingTypes(grid, x, z, radius) ]

\* clear(): every cell emptied
GridClear(grid) == [ grid EXCEPT !.cells = [ c \in 1..Len(grid.cells) |-> << >> ] ]

\* number of stored items
GridCount(grid) ==
    Cardinality(UNION { { <<c, k>> : k \in 1..Len(grid.cells[c]) } : c \in 1..Len(grid.cells) })

\* all items stored in the grid
GridItems(grid) ==
    UNION { { grid.cells[c][k] : k \in 1..Len(grid.cells[c]) } : c \in 1..Len(grid.cells) }

---------------------------------------------------------------------------
(* VegetationGenerator (RandomGenerator.h:254-553).  The operators thread   *)
(* the mutable members through a record g = [rng, grassItems, rockItems,   *)
(* spatialGrid].                                                           *)

\* cos and sin of the drawn angle in thousandths; the angle is one of eight
\* directions
Cos1000(a) == <<1000, 707, 0, -707, -1000, -707, 0, 707>>[a + 1]
Sin1000(a) == <<0, 707, 1000, 707, 0, -707, -1000, -707>>[a + 1]

Spacing(cfg) ==
    IF cfg.densitySpacing > 0
    THEN Max(cfg.minPointSpacing, cfg.densitySpacing)
    ELSE cfg.minPointSpacing

\* generateSpawnPointsGrid: cell k of the gz-major double loop onwards
RECURSIVE SpawnCells(_, _, _, _, _)
SpawnCells(cfg, ter, k, points, st) ==
    LET spacing == Spacing(cfg)
        gridCountX == CeilDiv(SizeX, spacing)
        gridCountZ == CeilDiv(SizeZ, spacing)
    IN IF k >= gridCountX * gridCountZ THEN [points |-> points, rng |-> st]
       ELSE LET gx == k % gridCountX
                gz == k \div gridCountX
                baseX == -HalfX + ((2 * gx + 1) * spacing) \div 2
                baseZ == -HalfZ + ((2 * gz + 1) * spacing) \div 2
                jitterAmount == (2 * spacing) \div 5
                st1 == RngStep(st)
                st2 == RngStep(st1)
                st3 == RngStep(st2)
                x == Clamp(baseX + UniformReal(st1, -jitterAmount, jitterAmount),
                           -HalfX + 2, HalfX - 2)
                z == Clamp(baseZ + UniformReal(st2, -jitterAmount, jitterAmount),
                           -HalfZ + 2, HalfZ - 2)
            IN IF Rand01(st3) < 100
               THEN SpawnCells(cfg, ter, k + 1, points, st3)
               ELSE IF ~IsValidTerrainLocation(cfg, ter, x, z)
               THEN SpawnCells(cfg, ter, k + 1, points, st3)
               ELSE SpawnCells(cfg, ter, k + 1, Append(points, <<x, z>>), st3)

GenerateSpawnPointsGrid(cfg, ter, st) ==
    LET r == SpawnCells(cfg, ter, 0, << >>, st)
        sh == Shuffle(r.points, r.rng)
    IN [points |-> sh.seq, rng |-> sh.rng]

\* determineType: [type, rng]
DetermineType(cfg, perm, st, x, z) ==
    LET noiseValue == (Fbm(perm, x, z, cfg.noiseCell, 4) + 1000) \div 2
        rockChance == Clamp(cfg.rockProbability
                              + ((noiseValue - 500) * cfg.noiseInfluence * 2) \div 1000,
                            50, 950)
        st1 == RngStep(st)
    IN [type |-> IF Rand01(st1) < rockChance THEN "Rock" ELSE "Grass", rng |-> st1]

ClusterConfigOf(cfg, type) ==
    IF type = "Rock" THEN cfg.rockCluster ELSE cfg.grassCluster

\* shouldGenerateCluster: [isCluster, rng]
ShouldGenerateCluster(cfg, st, type) ==
    LET st1 == RngStep(st)
    IN [isCluster |-> Rand01(st1) < ClusterConfigOf(cfg, type).probability, rng |-> st1]

\* the overlap test of tryPlaceItem
PlacementBlocked(grid, x, z, radius) == CheckOverlap(grid, x, z, radius)

\* no tryPlaceItem call was made
NoPlace == [ called |-> FALSE, x |-> 0, z |-> 0, type |-> "Grass", placed |-> FALSE ]

\* a tryPlaceItem call with its arguments and its return value
PlaceRecord(x, z, type, placed) ==
    [ called |-> TRUE, x |-> x, z |-> z, type |-> type, placed |-> placed ]

\* tryPlaceItem: [g, placed]
TryPlaceItem(g, cfg, ter, x, z, type) ==
    IF ter = "none"
    THEN [g |-> [g EXCEPT !.lastPlace = PlaceRecord(x, z, type, FALSE)], placed |-> FALSE]
    ELSE IF ~IsValidTerrainLocation(cfg, ter, x, z)
    THEN [g |-> [g EXCEPT !.lastPlace = PlaceRecord(x, z, type, FALSE)], placed |-> FALSE]
    ELSE
      LET y == SampleHeightWorld(ter, x, z)
          st1 == RngStep(g.rng)
          st2 == RngStep(st1)
          st3 == RngStep(st2)
          scale == IF type = "Rock"
                   THEN UniformReal(st1, cfg.rockMinScale, cfg.rockMaxScale)
                   ELSE UniformReal(st1, cfg.grassMinScale, cfg.grassMaxScale)
          radius == IF type = "Rock"
                    THEN (cfg.rockRadius * scale) \div 2
                    ELSE (cfg.grassRadius * scale) \div 2
          typeIndex == IF type = "Rock" THEN UniformInt(st2, 0, 2)
                       ELSE UniformInt(st2, 0, 8)
      IN IF PlacementBlocked(g.spatialGrid, x, z, radius)
         THEN [g |-> [g EXCEPT !.rng = st2,
                               !.lastQuery = QueryRecord(g.spatialGrid, x, z, radius, type),
                               !.lastPlace = PlaceRecord(x, z, type, FALSE)],
               placed |-> FALSE]
         ELSE LET item == VegetationItem(x, y, z, UniformReal(st3, 0, 628), scale,
                                         typeIndex, type, radius)
              IN [g |-> [ rng |-> st3,
                          grassItems |-> IF type = "Rock" THEN g.grassItems
                                         ELSE Append(g.grassItems, item),
                          rockItems |-> IF type = "Rock" THEN Append(g.rockItems, item)
                                        ELSE g.rockItems,
                          spatialGrid |-> GridInsert(g.spatialGrid, item),
                          lastQuery |-> QueryRecord(g.spatialGrid, x, z, radius, type),
                          lastPlace |-> PlaceRecord(x, z, type, TRUE) ],
                  placed |-> TRUE]

\* a cluster that keeps every member, wherever it falls
OutsideWorld_Never(x, z) == FALSE

\* if (x < -halfX || x > halfX || z < -halfZ || z > halfZ) continue;
OutsideWorld(x, z) == x < -HalfX \/ x > HalfX \/ z < -HalfZ \/ z > HalfZ

\* one iteration of the member loop of generateCluster: the new g
ClusterMemberStep(g, cfg, ter, centerX, centerZ, type) ==
    LET cc == ClusterConfigOf(cfg, type)
        st1 == RngStep(g.rng)
        st2 == RngStep(st1)
        st3 == RngStep(st2)
        t == Rand01(st1) \div 100
        base == (cc.radius * (Pow(10, cc.falloff) - Pow(10 - t, cc.falloff)))
                    \div Pow(10, cc.falloff)
        jitter == 850 + (Rand01(st2) * 3) \div 10
        distance == (base * jitter) \div 1000
        angle == UniformInt(st3, 0, 7)
        x == centerX + TruncDiv(Cos1000(angle) * distance, 1000)
        z == centerZ + TruncDiv(Sin1000(angle) * distance, 1000)
        g3 == [g EXCEPT !.rng = st3, !.lastPlace = NoPlace]
    IN IF OutsideWorld(x, z)
       THEN g3
       ELSE TryPlaceItem(g3, cfg, ter, x, z, type).g

---------------------------------------------------------------------------
(* The generator as a state machine: generate() is entered by Generate and  *)
(* runs its placement loop one spawn point (PlacePoint) or one cluster     *)
(* member (ClusterMember) at a time.                                       *)

GenState == [ rng |-> rng, grassItems |-> grassItems, rockItems |-> rockItems,
              spatialGrid |-> spatialGrid, lastQuery |-> lastQuery,
              lastPlace |-> lastPlace ]

\* base and attempts are history: the number of items held when
\* generateCluster was entered, and its tryPlaceItem calls so far
NoCluster ==
    [ centerX |-> 0, centerZ |-> 0, type |-> "Grass", i |-> 0, itemCount |-> 0,
      base |-> 0, attempts |-> 0 ]

\* a member loop that repeats a member whose placement failed
NextMemberIndex_Retry(i, placed) == IF placed THEN i + 1 ELSE i

\* the loop variable of the member loop after one iteration
NextMemberIndex(i, placed) == i + 1

\* where generate() stands once the spawn point before index next is handled
AfterPoint(next, n) == IF next > n THEN "done" ELSE "placing"

GenInit ==
    /\ genPc = "idle"
    /\ genArgs = [terrain |-> "none", cfg |-> CfgMeadow, seed |-> 0]
    /\ rng = RngSeed(5489)
    /\ noise = NoiseGenerator(12345)
    /\ spatialGrid = GridDefault
    /\ grassItems = << >>
    /\ rockItems = << >>
    /\ spawnPoints = << >>
    /\ pointIdx = 1
    /\ cluster = NoCluster
    /\ prevRun = << >>
    /\ lastQuery = NoQuery
    /\ lastPlace = NoPlace

\* the seed generate() works with: the argument, or a random_device value
ResolvedSeeds(seed) == IF seed = 0 THEN 1..MaxSeed ELSE {seed}

\* rng.seed(seed) with the generator state left by earlier calls discarded
KeepRng(st, seed) == st
SeedRng(st, seed) == RngSeed(seed)

\* generate(terrain, config, terrainSizeX, terrainSizeZ, seed) up to the
\* placement loop (RandomGenerator.h:259-297)
Generate(terrain, cfg, seed) ==
    /\ genPc \in {"idle", "done"}
    /\ \E s \in ResolvedSeeds(seed) :
         LET cellSize == Max(cfg.rockRadius, cfg.grassRadius) * 4
             sp == GenerateSpawnPointsGrid(cfg, terrain, SeedRng(rng, s))
         IN /\ rng' = sp.rng
            /\ noise' = NoiseGenerator(s)
            /\ grassItems' = << >>
            /\ rockItems' = << >>
            /\ spatialGrid' = GridInit(HalfX, HalfZ, cellSize)
            /\ spawnPoints' = sp.points
            /\ pointIdx' = 1
            /\ genPc' = AfterPoint(1, Len(sp.points))
    /\ genArgs' = [terrain |-> terrain, cfg |-> cfg, seed |-> seed]
    /\ cluster' = NoCluster
    /\ lastQuery' = NoQuery
    /\ lastPlace' = NoPlace
    /\ prevRun' = IF genPc = "done"
                  THEN << [args |-> genArgs, grassItems |-> grassItems,
                           rockItems |-> rockItems] >>
                  ELSE prevRun
    /\ UNCHANGED <<fieldVars, frameVars, playerVars>>

\* one iteration of the loop over spawnPoints (RandomGenerator.h:299-313),
\* with the head of generateCluster (RandomGenerator.h:453-465) when the
\* point starts a cluster
PlacePoint ==
    /\ genPc = "placing"
    /\ pointIdx <= Len(spawnPoints)
    /\ LET cfg == genArgs.cfg
           ter == genArgs.terrain
           x == spawnPoints[pointIdx][1]
           z == spawnPoints[pointIdx][2]
           dt == DetermineType(cfg, noise, rng, x, z)
           sc == ShouldGenerateCluster(cfg, dt.rng, dt.type)
       IN IF sc.isCluster
          THEN LET cc == ClusterConfigOf(cfg, dt.type)
                   st1 == RngStep(sc.rng)
                   itemCount == UniformInt(st1, cc.minItems, cc.maxItems)
                   g == TryPlaceItem([GenState EXCEPT !.rng = st1], cfg, ter, x, z, dt.type).g
               IN /\ rng' = g.rng
                  /\ grassItems' = g.grassItems
                  /\ rockItems' = g.rockItems
                  /\ spatialGrid' = g.spatialGrid
                  /\ lastQuery' = g.lastQuery
                  /\ lastPlace' = g.lastPlace
                  /\ IF 1 < itemCount
                     THEN /\ cluster' = [ centerX |-> x, centerZ |-> z, type |-> dt.type,
                                          i |-> 1, itemCount |-> itemCount,
                                          base |-> Len(grassItems) + Len(rockItems),
                                          attempts |-> 1 ]
                          /\ genPc' = "cluster"
                          /\ pointIdx' = pointIdx
                     ELSE /\ cluster' = NoCluster
                          /\ genPc' = AfterPoint(pointIdx + 1, Len(spawnPoints))
                          /\ pointIdx' = pointIdx + 1
          ELSE LET g == TryPlaceItem([GenState EXCEPT !.rng = sc.rng], cfg, ter, x, z, dt.type).g
               IN /\ rng' = g.rng
                  /\ grassItems' = g.grassItems
                  /\ rockItems' = g.rockItems
                  /\ spatialGrid' = g.spatialGrid
                  /\ lastQuery' = g.lastQuery
                  /\ lastPlace' = g.lastPlace
                  /\ cluster' = NoCluster
                  /\ genPc' = AfterPoint(pointIdx + 1, Len(spawnPoints))
                  /\ pointIdx' = pointIdx + 1
    /\ UNCHANGED <<genArgs, noise, spawnPoints, prevRun>>
    /\ UNCHANGED <<fieldVars, frameVars, playerVars>>

\* one iteration of the member loop of generateCluster (RandomGenerator.h:467-485)
ClusterMember ==
    /\ genPc = "cluster"
    /\ cluster.i < cluster.itemCount
    /\ LET g == ClusterMemberStep(GenState, genArgs.cfg, genArgs.terrain,
                                  cluster.centerX, cluster.centerZ, cluster.type)
       IN /\ rng' = g.rng
          /\ grassItems' = g.grassItems
          /\ rockItems' = g.rockItems
          /\ spatialGrid' = g.spatialGrid
          /\ lastQuery' = g.lastQuery
          /\ lastPlace' = g.lastPlace
    /\ IF NextMemberIndex(cluster.i, lastPlace'.called /\ lastPlace'.placed) < cluster.itemCount
       THEN /\ cluster' = [cluster EXCEPT
                              !.i = NextMemberIndex(@, lastPlace'.called /\ lastPlace'.placed),
                              !.attempts = IF lastPlace'.called THEN @ + 1 ELSE @]
            /\ genPc' = "cluster"
            /\ pointIdx' = pointIdx
       ELSE /\ cluster' = NoCluster
            /\ genPc' = AfterPoint(pointIdx + 1, Len(spawnPoints))
            /\ pointIdx' = pointIdx + 1
    /\ UNCHANGED <<genArgs, noise, spawnPoints, prevRun>>
    /\ UNCHANGED <<fieldVars, frameVars, playerVars>>

GenNext ==
    \/ \E run \in GenRuns, seed \in 0..MaxSeed : Generate(run[1], run[2], seed)
    \/ PlacePoint
    \/ ClusterMember


---------------------------------------------------------------------------
(* SpatialHashGrid driven through its public functions.                    *)

\* half the world size the grid is built for
GridHalf == 4
\* most items inserted
MaxGridItems == 2

\* cell sizes handed to init
GridCellSizes == { 2, 4 }
\* positions of inserted items and of queries: the corners of the world, and
\* points on both sides of a cell border
GridPoints ==
    { <<-GridHalf, -GridHalf>>, <<-1, 0>>, <<1, 0>>, <<3, 0>>, <<3, 3>>,
      <<GridHalf, GridHalf>> }
\* radii of inserted items and of queries
GridRadii == { 1, 2 }

GridRest == <<genPc, genArgs, rng, noise, grassItems, rockItems, spawnPoints, pointIdx,
              cluster, prevRun, lastPlace>>

\* SpatialHashGrid::init
GridInitCall(cellSize) ==
    /\ spatialGrid' = GridInit(GridHalf, GridHalf, cellSize)
    /\ lastQuery' = NoQuery
    /\ UNCHANGED <<GridRest, fieldVars, frameVars, playerVars>>

\* SpatialHashGrid::insert
GridInsertCall(p, radius) ==
    /\ spatialGrid.gridWidth > 0
    /\ GridCount(spatialGrid) < MaxGridItems
    /\ spatialGrid' = GridInsert(spatialGrid,
                                 VegetationItem(p[1], 0, p[2], 0, 2, 0, "Grass", radius))
    /\ lastQuery' = NoQuery
    /\ UNCHANGED <<GridRest, fieldVars, frameVars, playerVars>>

\* SpatialHashGrid::clear
GridClearCall ==
    /\ spatialGrid.gridWidth > 0
    /\ spatialGrid' = GridClear(spatialGrid)
    /\ lastQuery' = NoQuery
    /\ UNCHANGED <<GridRest, fieldVars, frameVars, playerVars>>

\* SpatialHashGrid::checkOverlap
GridQueryCall(p, radius) ==
    /\ spatialGrid.gridWidth > 0
    /\ lastQuery' = QueryRecord(spatialGrid, p[1], p[2], radius, "Grass")
    /\ UNCHANGED <<spatialGrid, GridRest, fieldVars, frameVars, playerVars>>

GridNext ==
    \/ \E cellSize \in GridCellSizes : GridInitCall(cellSize)
    \/ \E p \in GridPoints, radius \in GridRadii : GridInsertCall(p, radius)
    \/ GridClearCall
    \/ \E p \in GridPoints, radius \in GridRadii : GridQueryCall(p, radius)
---------------------------------------------------------------------------
(* Rocks (Rocks.h) and HybridGrassField (HybridGrassField.h).  Positions   *)
(* are whole units; chunk centers are kept doubled (centerX2 = 2 * x) so   *)
(* that chunkSize / 2 stays whole.  An instance carries id, its index in   *)
(* the supplied list, which stands for the position, rotation and scale    *)
(* that make up its GPU record.                                            *)

\* half of terrainSizeX = terrainSizeZ of both subsystems
FieldHalf == 4
\* most instances a caller supplies
MaxInst == 2

FieldSize == 2 * FieldHalf

\* Rocks::lodDistanceHigh and Rocks::lodDistanceMedium
LodDistanceHigh == 3
LodDistanceMedium == 5

\* the % of C++: the sign of the result follows the dividend
CMod(a, b) == a - b * TruncDiv(a, b)

\* camera positions handed to update() and draw()
CameraPositions ==
    { [x |-> -4, y |-> 9, z |-> -4], [x |-> 1, y |-> 2, z |-> -2] }

\* supplied rock instances as (position, typeIndex): indices below, inside
\* and above the range of the loaded types; (4, -5) lies outside the terrain
RockInputs ==
    { << <<-2, -2>>, -3 >>, << <<1, -1>>, 1 >>, << <<4, -5>>, 5 >> }
\* (viewDistance, chunkSize) arguments of Rocks::initWithInstances
RockParams == { <<3, 4>>, <<1, 3>> }
\* numbers of rock types loadRockTypesWithAutoLOD manages to load
RockPalettes == 0..2

RockInstance(id, pos, typeIndex) ==
    [ id |-> id, x |-> pos[1], z |-> pos[2], typeIndex |-> typeIndex, lodLevel |-> 2 ]

\* lists of at most n supplied rock instances
RockInputLists(n) ==
    UNION { [1..k -> RockInputs] : k \in 0..n }

\* a null slot of instanceBuffersByType.  fresh: the buffer was written by
\* the latest performChunkCulling; failed: its creation was tried and failed
NoBuffer ==
    [ exists |-> FALSE, capacity |-> 0, data |-> << >>, copied |-> 0, fresh |-> FALSE,
      failed |-> FALSE ]

FailedBuffer == [ NoBuffer EXCEPT !.failed = TRUE ]

\* a Rocks object after construction
RocksNew ==
    [ initialized |-> FALSE, rockTypes |-> 0, viewDistance |-> 3, chunkSize |-> 4,
      allInstances |-> << >>, chunks |-> << >>,
      instancesByTypeLOD |-> << >>, visibleInstancesByTypeLOD |-> << >>,
      instanceBuffersByType |-> << >>,
      lastCall |-> "none", lodPos |-> << >>, cullPos |-> << >>, drawCalls |-> << >> ]

\* the clamp of typeIndex in initWithInstances, without its negative fix
ClampTypeIndex_ModuloOnly(typeIndex, numTypes) ==
    IF typeIndex < 0 \/ typeIndex >= numTypes THEN CMod(typeIndex, numTypes)
    ELSE typeIndex

\* the clamp of typeIndex in initWithInstances
ClampTypeIndex(typeIndex, numTypes) ==
    IF typeIndex < 0 \/ typeIndex >= numTypes
    THEN LET m == CMod(typeIndex, numTypes) IN IF m < 0 THEN 0 ELSE m
    ELSE typeIndex

NumChunks(chunkSize) == CeilDiv(FieldSize, chunkSize)

\* the chunk index computed without std::clamp
ChunkIndexOf_NoClamp(inst, chunkSize) ==
    TruncDiv(inst.z + FieldHalf, chunkSize) * NumChunks(chunkSize)
        + TruncDiv(inst.x + FieldHalf, chunkSize)

\* index of the chunk an instance is assigned to
ChunkIndexOf(inst, chunkSize) ==
    LET cx == Clamp(TruncDiv(inst.x + FieldHalf, chunkSize), 0, NumChunks(chunkSize) - 1)
        cz == Clamp(TruncDiv(inst.z + FieldHalf, chunkSize), 0, NumChunks(chunkSize) - 1)
    IN cz * NumChunks(chunkSize) + cx

OrganizeIntoChunks(allInstances, chunkSize) ==
    [ k \in 1..(NumChunks(chunkSize) * NumChunks(chunkSize)) |->
        LET cx == (k - 1) % NumChunks(chunkSize)
            cz == (k - 1) \div NumChunks(chunkSize)
        IN [ centerX2 |-> 2 * (cx * chunkSize - FieldHalf) + chunkSize,
             centerZ2 |-> 2 * (cz * chunkSize - FieldHalf) + chunkSize,
             isVisible |-> FALSE,
             instances |-> SelectSeq(allInstances,
                                     LAMBDA inst : ChunkIndexOf(inst, chunkSize) = k - 1) ] ]

SeparateInstancesByTypeAndLOD(allInstances, numTypes) ==
    [ t \in 1..numTypes |->
        [ l \in 1..3 |->
            SelectSeq(allInstances,
                      LAMBDA inst : inst.typeIndex = t - 1 /\ inst.lodLevel = l - 1) ] ]

TotalInstances(byLOD) == Len(byLOD[1]) + Len(byLOD[2]) + Len(byLOD[3])

\* capacity sized by the bucket of one LOD only
RockBufferCapacity_OwnLOD(byLOD, l) == Len(byLOD[l])

\* records the buffer of LOD l is created for: all instances of the type
RockBufferCapacity(byLOD, l) == TotalInstances(byLOD)

\* failed: the (type, lod) slots whose CreateCommittedResource fails
CreateInstanceBuffers(instancesByTypeLOD, failed) ==
    [ t \in 1..Len(instancesByTypeLOD) |->
        [ l \in 1..3 |->
            IF TotalInstances(instancesByTypeLOD[t]) = 0 THEN NoBuffer
            ELSE IF <<t - 1, l - 1>> \in failed THEN FailedBuffer
            ELSE [ exists |-> TRUE,
                   capacity |-> RockBufferCapacity(instancesByTypeLOD[t], l),
                   data |-> << >>, copied |-> 0, fresh |-> FALSE, failed |-> FALSE ] ] ]

\* sqrtf(dx * dx + dz * dz) < limit, decided on the squares
DistanceBelow(dx, dz, limit) == dx * dx + dz * dz < limit * limit

\* the LOD choice with inclusive thresholds
LodLevelFor_Inclusive(dx, dz) ==
    IF dx * dx + dz * dz <= LodDistanceHigh * LodDistanceHigh THEN 0
    ELSE IF dx * dx + dz * dz <= LodDistanceMedium * LodDistanceMedium THEN 1
    ELSE 2

LodLevelFor(dx, dz) ==
    IF DistanceBelow(dx, dz, LodDistanceHigh) THEN 0
    ELSE IF DistanceBelow(dx, dz, LodDistanceMedium) THEN 1
    ELSE 2

UpdateLODLevels(chunks, cameraPos) ==
    [ k \in 1..Len(chunks) |->
        LET insts == chunks[k].instances
        IN [ chunks[k] EXCEPT !.instances =
               [ i \in 1..Len(insts) |->
                   [ insts[i] EXCEPT !.lodLevel =
                       LodLevelFor(insts[i].x - cameraPos.x, insts[i].z - cameraPos.z) ] ] ] ]

\* the chunk test that also counts the camera height
ChunkInView_WithHeight(chunk, cameraPos, viewDistance, chunkSize) ==
    LET dx2 == chunk.centerX2 - 2 * cameraPos.x
        dz2 == chunk.centerZ2 - 2 * cameraPos.z
        dy2 == 2 * cameraPos.y
    IN dx2 * dx2 + dy2 * dy2 + dz2 * dz2
          <= (2 * viewDistance + chunkSize) * (2 * viewDistance + chunkSize)

\* dx * dx + dz * dz <= maxDistSq with maxDist = viewDistance + chunkSize / 2,
\* on doubled lengths
ChunkInView(chunk, cameraPos, viewDistance, chunkSize) ==
    LET dx2 == chunk.centerX2 - 2 * cameraPos.x
        dz2 == chunk.centerZ2 - 2 * cameraPos.z
    IN dx2 * dx2 + dz2 * dz2
          <= (2 * viewDistance + chunkSize) * (2 * viewDistance + chunkSize)

\* the instances of the visible chunks from chunk k on, in chunk order
RECURSIVE VisibleFrom(_, _)
VisibleFrom(chunks, k) ==
    IF k > Len(chunks) THEN << >>
    ELSE (IF chunks[k].isVisible THEN chunks[k].instances ELSE << >>)
         \o VisibleFrom(chunks, k + 1)

\* the visible lists when the lists of the previous call are not cleared
RockVisibleLists_NoClear(r, chunks) ==
    [ t \in 1..r.rockTypes |->
        [ l \in 1..3 |->
            r.visibleInstancesByTypeLOD[t][l]
            \o SelectSeq(VisibleFrom(chunks, 1),
                         LAMBDA inst : inst.typeIndex = t - 1 /\ inst.lodLevel = l - 1) ] ]

\* the visible lists of performChunkCulling: cleared, then every instance of
\* a visible chunk appended to the list of its type and LOD
RockVisibleLists(r, chunks) ==
    [ t \in 1..r.rockTypes |->
        [ l \in 1..3 |->
            SelectSeq(VisibleFrom(chunks, 1),
                      LAMBDA inst : inst.typeIndex = t - 1 /\ inst.lodLevel = l - 1) ] ]

InstanceIds(insts) == [ i \in 1..Len(insts) |-> insts[i].id ]

\* memcpy(mappedData, gpuInstances.data(), copySize): the first records of
\* the buffer are replaced, the rest stays
Memcpy(data, records) ==
    records \o SubSeq(data, Len(records) + 1, Len(data))

\* the upload without the test for a null buffer
UploadVisible_NoNullCheck(buffer, visible, mapOk) ==
    IF visible = << >> \/ ~mapOk THEN [ buffer EXCEPT !.fresh = FALSE ]
    ELSE [ buffer EXCEPT !.data = Memcpy(@, InstanceIds(visible)),
                         !.copied = Len(visible), !.fresh = TRUE ]

\* the upload loop of performChunkCulling for one buffer; mapOk is
\* SUCCEEDED(hr) && mappedData of the buffer's Map call
UploadVisible(buffer, visible, mapOk) ==
    IF visible = << >> \/ ~buffer.exists \/ ~mapOk THEN [ buffer EXCEPT !.fresh = FALSE ]
    ELSE [ buffer EXCEPT !.data = Memcpy(@, InstanceIds(visible)),
                         !.copied = Len(visible), !.fresh = TRUE ]

\* Rocks::performChunkCulling
RocksPerformChunkCulling(r, cameraPos, mapFailed) ==
    LET chunks == [ k \in 1..Len(r.chunks) |->
                      [ r.chunks[k] EXCEPT !.isVisible =
                          ChunkInView(r.chunks[k], cameraPos, r.viewDistance, r.chunkSize) ] ]
        visible == RockVisibleLists(r, chunks)
    IN [ r EXCEPT !.chunks = chunks,
                  !.visibleInstancesByTypeLOD = visible,
                  !.instanceBuffersByType =
                      [ t \in 1..r.rockTypes |->
                          [ l \in 1..3 |->
                              UploadVisible(r.instanceBuffersByType[t][l], visible[t][l],
                                            <<t - 1, l - 1>> \notin mapFailed) ] ],
                  !.cullPos = << cameraPos >> ]

\* the DrawIndexedInstanced calls of drawRockType over all types, in order;
\* records is what the instance buffer holds when the call is recorded
RECURSIVE RockDrawCalls(_, _)
RockDrawCalls(r, slot) ==
    IF slot >= 3 * r.rockTypes THEN << >>
    ELSE LET t == (slot \div 3) + 1
             l == (slot % 3) + 1
             visibleCount == Len(r.visibleInstancesByTypeLOD[t][l])
             buffer == r.instanceBuffersByType[t][l]
         IN (IF visibleCount = 0 \/ ~buffer.exists THEN << >>
             ELSE << [ owner |-> "rocks", type |-> t - 1, lod |-> l - 1,
                       count |-> visibleCount,
                       records |-> SubSeq(buffer.data, 1, Min(visibleCount, Len(buffer.data))),
                       fresh |-> buffer.fresh ] >>)
            \o RockDrawCalls(r, slot + 1)

\* initWithInstances that copies the supplied instances before it tests
\* for an empty palette
RocksInitWithInstances_LateReturn(r, numTypes, supplied, params, failed) ==
    [ r EXCEPT !.initialized = TRUE, !.rockTypes = numTypes,
               !.viewDistance = params[1], !.chunkSize = params[2],
               !.allInstances = supplied,
               !.chunks = IF numTypes = 0 THEN << >> ELSE OrganizeIntoChunks(supplied, params[2]),
               !.instancesByTypeLOD = [ t \in 1..numTypes |-> [ l \in 1..3 |-> << >> ] ],
               !.visibleInstancesByTypeLOD =
                   [ t \in 1..numTypes |-> [ l \in 1..3 |-> << >> ] ],
               !.instanceBuffersByType = [ t \in 1..numTypes |-> [ l \in 1..3 |-> NoBuffer ] ],
               !.lastCall = "init" ]

\* Rocks::initWithInstances
RocksInitWithInstances(r, numTypes, supplied, params, failed) ==
    IF numTypes = 0
    THEN [ r EXCEPT !.initialized = TRUE, !.viewDistance = params[1],
                    !.chunkSize = params[2], !.lastCall = "init" ]
    ELSE LET all == [ i \in 1..Len(supplied) |->
                        [ supplied[i] EXCEPT !.typeIndex = ClampTypeIndex(@, numTypes) ] ]
             byTypeLOD == SeparateInstancesByTypeAndLOD(all, numTypes)
         IN [ r EXCEPT !.initialized = TRUE, !.rockTypes = numTypes,
                       !.viewDistance = params[1], !.chunkSize = params[2],
                       !.allInstances = all,
                       !.chunks = OrganizeIntoChunks(all, params[2]),
                       !.instancesByTypeLOD = byTypeLOD,
                       !.visibleInstancesByTypeLOD =
                           [ t \in 1..numTypes |-> [ l \in 1..3 |-> << >> ] ],
                       !.instanceBuffersByType = CreateInstanceBuffers(byTypeLOD, failed),
                       !.lastCall = "init" ]

\* an update that also sorts the persistent buckets by the new LOD levels
RocksUpdate_Rebucket(r, cameraPos) ==
    LET chunks == UpdateLODLevels(r.chunks, cameraPos)
    IN [ r EXCEPT !.chunks = chunks,
                  !.instancesByTypeLOD =
                      SeparateInstancesByTypeAndLOD(VisibleFrom(
                          [ k \in 1..Len(chunks) |-> [ chunks[k] EXCEPT !.isVisible = TRUE ] ], 1),
                          r.rockTypes),
                  !.lodPos = << cameraPos >>, !.lastCall = "update" ]

\* Rocks::update
RocksUpdate(r, cameraPos) ==
    [ r EXCEPT !.chunks = UpdateLODLevels(@, cameraPos),
               !.lodPos = << cameraPos >>, !.lastCall = "update" ]

\* Rocks::draw
RocksDraw(r, cameraPos, mapFailed) ==
    IF r.rockTypes = 0 THEN [ r EXCEPT !.drawCalls = << >>, !.lastCall = "draw" ]
    ELSE LET culled == RocksPerformChunkCulling(r, cameraPos, mapFailed)
         IN [ culled EXCEPT !.drawCalls = RockDrawCalls(culled, 0), !.lastCall = "draw" ]

\* group configs handed to HybridGrassField::initWithInstances: for every
\* configured group, the number of its types whose model loads
GrassGroupConfigs == { << >>, << 0 >>, << 2 >>, << 1, 0, 2 >> }
\* supplied grass instances as (position, (groupIndex, typeIndex))
GrassInputs ==
    { << <<-2, -2>>, <<-3, 5>> >>, << <<1, -1>>, <<0, 0>> >>,
      << <<4, -5>>, <<1, -1>> >>, << <<1, -1>>, <<5, 1>> >> }
\* (viewDistance, chunkSize) arguments of HybridGrassField::initWithInstances
GrassParams == { <<1, 2>>, <<2, 3>> }
\* most update() calls followed
MaxWindTime == 1

GrassInstance(id, pos, indices) ==
    [ id |-> id, x |-> pos[1], z |-> pos[2],
      groupIndex |-> indices[1], typeIndex |-> indices[2] ]

\* lists of at most n supplied grass instances
GrassInputLists(n) ==
    UNION { [1..k -> GrassInputs] : k \in 0..n }

\* a HybridGrassField object after construction
GrassNew ==
    [ initialized |-> FALSE, groups |-> << >>, viewDistance |-> 3, chunkSize |-> 2,
      allInstances |-> << >>, chunks |-> << >>,
      instancesByType |-> << >>, visibleInstancesByType |-> << >>,
      instanceBuffers |-> << >>, windTime |-> 0,
      initPath |-> "none",
      lastCall |-> "none", cullPos |-> << >>, drawCalls |-> << >> ]

\* loadGrassGroups: the number of types of every loaded group; a group
\* without a loaded type is not kept
LoadGrassGroups(configs) == SelectSeq(configs, LAMBDA n : n > 0)

\* the clamp of one grass instance, without the negative fixes
ClampGrassInstance_ModuloOnly(inst, groups) ==
    LET g == IF inst.groupIndex < 0 \/ inst.groupIndex >= Len(groups)
             THEN Max(CMod(inst.groupIndex, Len(groups)), 0)
             ELSE inst.groupIndex
        maxType == groups[g + 1]
        t == IF maxType > 0 /\ (inst.typeIndex < 0 \/ inst.typeIndex >= maxType)
             THEN CMod(inst.typeIndex, maxType)
             ELSE inst.typeIndex
    IN [ inst EXCEPT !.groupIndex = g, !.typeIndex = t ]

\* the clamp of one grass instance in initWithInstances
ClampGrassInstance(inst, groups) ==
    LET g == IF inst.groupIndex < 0 \/ inst.groupIndex >= Len(groups)
             THEN LET m == CMod(inst.groupIndex, Len(groups)) IN IF m < 0 THEN 0 ELSE m
             ELSE inst.groupIndex
        maxType == groups[g + 1]
        t == IF maxType > 0 /\ (inst.typeIndex < 0 \/ inst.typeIndex >= maxType)
             THEN LET m == CMod(inst.typeIndex, maxType) IN IF m < 0 THEN 0 ELSE m
             ELSE inst.typeIndex
    IN [ inst EXCEPT !.groupIndex = g, !.typeIndex = t ]

SeparateInstancesByGroupAndType(allInstances, groups) ==
    [ g \in 1..Len(groups) |->
        [ t \in 1..groups[g] |->
            SelectSeq(allInstances,
                      LAMBDA inst : inst.groupIndex = g - 1 /\ inst.typeIndex = t - 1) ] ]

RECURSIVE TotalGroupInstances(_, _)
TotalGroupInstances(byType, t) ==
    IF t > Len(byType) THEN 0 ELSE Len(byType[t]) + TotalGroupInstances(byType, t + 1)

\* capacity sized by the bucket of one type only
GrassBufferCapacity_OwnType(byType, t) == Len(byType[t])

\* records the buffer of type t is created for: all instances of the group,
\* or 1000 when the group has none
GrassBufferCapacity(byType, t) ==
    IF TotalGroupInstances(byType, 1) = 0 THEN 1000 ELSE TotalGroupInstances(byType, 1)

\* failed: the (group, type) slots whose CreateCommittedResource fails
GrassCreateInstanceBuffers(instancesByType, failed) ==
    [ g \in 1..Len(instancesByType) |->
        [ t \in 1..Len(instancesByType[g]) |->
            IF <<g - 1, t - 1>> \in failed THEN FailedBuffer
            ELSE [ exists |-> TRUE,
                   capacity |-> GrassBufferCapacity(instancesByType[g], t),
                   data |-> << >>, copied |-> 0, fresh |-> FALSE, failed |-> FALSE ] ] ]

\* the visible lists with the instances of every chunk, visible or not
GrassVisibleLists_AllChunks(f, chunks) ==
    [ g \in 1..Len(f.groups) |->
        [ t \in 1..f.groups[g] |->
            SelectSeq(f.allInstances,
                      LAMBDA inst : inst.groupIndex = g - 1 /\ inst.typeIndex = t - 1) ] ]

\* the visible lists when the lists of the previous call are not cleared
GrassVisibleLists_NoClear(f, chunks) ==
    [ g \in 1..Len(f.groups) |->
        [ t \in 1..f.groups[g] |->
            f.visibleInstancesByType[g][t]
            \o SelectSeq(VisibleFrom(chunks, 1),
                         LAMBDA inst : inst.groupIndex = g - 1 /\ inst.typeIndex = t - 1) ] ]

\* the visible lists of performChunkCulling: cleared, then every instance of
\* a visible chunk appended to the list of its group and type
GrassVisibleLists(f, chunks) ==
    [ g \in 1..Len(f.groups) |->
        [ t \in 1..f.groups[g] |->
            SelectSeq(VisibleFrom(chunks, 1),
                      LAMBDA inst : inst.groupIndex = g - 1 /\ inst.typeIndex = t - 1) ] ]

\* HybridGrassField::performChunkCulling
GrassPerformChunkCulling(f, cameraPos, mapFailed) ==
    LET chunks == [ k \in 1..Len(f.chunks) |->
                      [ f.chunks[k] EXCEPT !.isVisible =
                          ChunkInView(f.chunks[k], cameraPos, f.viewDistance, f.chunkSize) ] ]
        visible == GrassVisibleLists(f, chunks)
    IN [ f EXCEPT !.chunks = chunks,
                  !.visibleInstancesByType = visible,
                  !.instanceBuffers =
                      [ g \in 1..Len(f.groups) |->
                          [ t \in 1..f.groups[g] |->
                              UploadVisible(f.instanceBuffers[g][t], visible[g][t],
                                            <<g - 1, t - 1>> \notin mapFailed) ] ],
                  !.cullPos = << cameraPos >> ]

\* the DrawIndexedInstanced calls of drawGroup for group g from type t on
RECURSIVE GrassDrawCalls(_, _, _)
GrassDrawCalls(f, g, t) ==
    IF g > Len(f.groups) THEN << >>
    ELSE IF t > f.groups[g] THEN GrassDrawCalls(f, g + 1, 1)
    ELSE LET visibleCount == Len(f.visibleInstancesByType[g][t])
             buffer == f.instanceBuffers[g][t]
         IN (IF visibleCount = 0 \/ ~buffer.exists THEN << >>
             ELSE << [ owner |-> "grass", type |-> g - 1, lod |-> t - 1,
                       count |-> visibleCount,
                       records |-> SubSeq(buffer.data, 1, Min(visibleCount, Len(buffer.data))),
                       fresh |-> buffer.fresh ] >>)
            \o GrassDrawCalls(f, g, t + 1)

\* HybridGrassField::initWithInstances
GrassInitWithInstances(f, configs, supplied, params, failed) ==
    LET groups == LoadGrassGroups(configs)
    IN IF groups = << >>
       THEN [ f EXCEPT !.initialized = TRUE, !.viewDistance = params[1],
                       !.chunkSize = params[2], !.initPath = "supplied",
                       !.lastCall = "init" ]
       ELSE LET all == [ i \in 1..Len(supplied) |-> ClampGrassInstance(supplied[i], groups) ]
                byType == SeparateInstancesByGroupAndType(all, groups)
            IN [ f EXCEPT !.initialized = TRUE, !.groups = groups,
                          !.viewDistance = params[1], !.chunkSize = params[2],
                          !.allInstances = all,
                          !.chunks = OrganizeIntoChunks(all, params[2]),
                          !.instancesByType = byType,
                          !.visibleInstancesByType =
                              [ g \in 1..Len(groups) |-> [ t \in 1..groups[g] |-> << >> ] ],
                          !.instanceBuffers = GrassCreateInstanceBuffers(byType, failed),
                          !.initPath = "supplied", !.lastCall = "init" ]

\* group configs handed to HybridGrassField::init: every group with its
\* weight and its types, every type with its weight and whether its model
\* loads.  In turn: all types load; the whole first group fails; the first
\* type of a group fails; a group is configured without types; nothing loads
GrassInitConfigs ==
    { << [ groupWeight |-> 1, types |-> << [ weight |-> 1, loads |-> TRUE ],
                                           [ weight |-> 1, loads |-> TRUE ] >> ] >>,
      << [ groupWeight |-> 1, types |-> << [ weight |-> 1, loads |-> FALSE ] >> ],
         [ groupWeight |-> 1, types |-> << [ weight |-> 1, loads |-> TRUE ] >> ] >>,
      << [ groupWeight |-> 1, types |-> << [ weight |-> 1, loads |-> FALSE ],
                                           [ weight |-> 1, loads |-> TRUE ] >> ] >>,
      << [ groupWeight |-> 1, types |-> << >> ],
         [ groupWeight |-> 1, types |-> << [ weight |-> 1, loads |-> TRUE ] >> ] >>,
      << [ groupWeight |-> 1, types |-> << [ weight |-> 1, loads |-> FALSE ] >> ] >> }
\* (spacing, minDistance, viewDistance, chunkSize) arguments of
\* HybridGrassField::init, the density given by the grid spacing
\* 1 / sqrt(density) it stands for
GrassInitParams == { <<3, 4, 1, 3>>, <<2, 0, 2, 4>> }
\* values std::random_device hands to the generator of one init
GrassDeviceSeeds == 0..1

\* for every configured group, the number of its types whose model loads
LoadedTypeCounts(configs) ==
    [ g \in 1..Len(configs) |->
        Len(SelectSeq(configs[g].types, LAMBDA type : type.loads)) ]

RECURSIVE SumWeights(_, _)
SumWeights(weights, i) ==
    IF i > Len(weights) THEN 0 ELSE weights[i] + SumWeights(weights, i + 1)

\* one weight over the total, in thousandths; 0 when the total is 0
NormalizedWeight(weight, total) == IF total > 0 THEN (weight * 1000) \div total ELSE 0

\* normalizeWeights: over every configured group and type, loaded or not
NormalizeWeights(configs) ==
    LET groupWeights == [ g \in 1..Len(configs) |-> configs[g].groupWeight ]
        typeWeights == [ g \in 1..Len(configs) |->
                           [ t \in 1..Len(configs[g].types) |-> configs[g].types[t].weight ] ]
    IN [ normalizedGroupWeights |->
             [ g \in 1..Len(configs) |->
                 NormalizedWeight(groupWeights[g], SumWeights(groupWeights, 1)) ],
         normalizedTypeWeights |->
             [ g \in 1..Len(configs) |->
                 [ t \in 1..Len(typeWeights[g]) |->
                     NormalizedWeight(typeWeights[g][t], SumWeights(typeWeights[g], 1)) ] ] ]

\* roulette-wheel selection from entry i on: the index of the first entry at
\* which the running total reaches randomValue, else the last index
RECURSIVE SelectWeighted(_, _, _, _)
SelectWeighted(weights, i, cumulative, randomValue) ==
    IF i > Len(weights) THEN Len(weights) - 1
    ELSE IF randomValue <= cumulative + weights[i] THEN i - 1
    ELSE SelectWeighted(weights, i + 1, cumulative + weights[i], randomValue)

SelectWeightedGroup(nw, randomValue) ==
    SelectWeighted(nw.normalizedGroupWeights, 1, 0, randomValue)

SelectWeightedType(nw, groupIndex, randomValue) ==
    IF groupIndex < 0 \/ groupIndex >= Len(nw.normalizedTypeWeights) THEN 0
    ELSE SelectWeighted(nw.normalizedTypeWeights[groupIndex + 1], 1, 0, randomValue)

\* the grid cells of one chunk from cell on, z outer and x inner: one
\* instance per cell, seven draws each (two offsets, group, type, rotation,
\* scale, wind phase).  Returns the instances and the generator state
RECURSIVE GenerateChunkCells(_, _, _, _, _, _, _)
GenerateChunkCells(nw, chunkMin, spacing, minSpacing, cell, st, firstId) ==
    LET gridCount == TruncDiv(chunkMin[3], spacing)
    IN IF cell >= gridCount * gridCount THEN [ instances |-> << >>, rng |-> st ]
       ELSE LET offsetMax == TruncDiv(3 * minSpacing, 10)
                st1 == RngStep(st)
                worldX == chunkMin[1] + (cell % gridCount) * spacing
                              + UniformReal(st1, -offsetMax, offsetMax)
                st2 == RngStep(st1)
                worldZ == chunkMin[2] + (cell \div gridCount) * spacing
                              + UniformReal(st2, -offsetMax, offsetMax)
                st3 == RngStep(st2)
                selectedGroup == SelectWeightedGroup(nw, Rand01(st3))
                st4 == RngStep(st3)
                selectedType == SelectWeightedType(nw, selectedGroup, Rand01(st4))
                st7 == RngStep(RngStep(RngStep(st4)))
                rest == GenerateChunkCells(nw, chunkMin, spacing, minSpacing, cell + 1,
                                           st7, firstId + 1)
            IN [ instances |->
                     << GrassInstance(firstId, <<worldX, worldZ>>,
                                      <<selectedGroup, selectedType>>) >> \o rest.instances,
                 rng |-> rest.rng ]

\* generateWeightedGrassChunks from chunk k on, cz outer and cx inner
RECURSIVE GenerateWeightedGrassChunks(_, _, _, _, _, _, _)
GenerateWeightedGrassChunks(nw, chunkSize, spacing, minSpacing, k, st, firstId) ==
    LET numChunks == TruncDiv(FieldSize, chunkSize)
    IN IF k >= numChunks * numChunks THEN << >>
       ELSE LET chunkMinX == (k % numChunks) * chunkSize - FieldHalf
                chunkMinZ == (k \div numChunks) * chunkSize - FieldHalf
                cells == GenerateChunkCells(nw, <<chunkMinX, chunkMinZ, chunkSize>>,
                                            spacing, minSpacing, 0, st, firstId)
            IN << [ centerX2 |-> 2 * chunkMinX + chunkSize,
                    centerZ2 |-> 2 * chunkMinZ + chunkSize,
                    isVisible |-> FALSE,
                    instances |-> cells.instances ] >>
               \o GenerateWeightedGrassChunks(nw, chunkSize, spacing, minSpacing, k + 1,
                                              cells.rng, firstId + Len(cells.instances))

\* every instance of chunk k on, in chunk order: allInstances after the
\* generation
RECURSIVE GeneratedInstances(_, _)
GeneratedInstances(chunks, k) ==
    IF k > Len(chunks) THEN << >>
    ELSE chunks[k].instances \o GeneratedInstances(chunks, k + 1)

\* HybridGrassField::init; params = (spacing, minDistance, viewDistance,
\* chunkSize), deviceSeed the value of std::random_device
GrassInit(f, configs, params, deviceSeed, failed) ==
    LET groups == LoadGrassGroups(LoadedTypeCounts(configs))
    IN IF groups = << >>
       THEN [ f EXCEPT !.initialized = TRUE, !.viewDistance = params[3],
                       !.chunkSize = params[4], !.initPath = "generated",
                       !.lastCall = "init" ]
       ELSE LET chunks == GenerateWeightedGrassChunks(NormalizeWeights(configs), params[4],
                              params[1], params[2], 0, RngSeed(deviceSeed), 1)
                all == GeneratedInstances(chunks, 1)
                byType == SeparateInstancesByGroupAndType(all, groups)
            IN [ f EXCEPT !.initialized = TRUE, !.groups = groups,
                          !.viewDistance = params[3], !.chunkSize = params[4],
                          !.allInstances = all,
                          !.chunks = chunks,
                          !.instancesByType = byType,
                          !.visibleInstancesByType =
                              [ g \in 1..Len(groups) |-> [ t \in 1..groups[g] |-> << >> ] ],
                          !.instanceBuffers = GrassCreateInstanceBuffers(byType, failed),
                          !.initPath = "generated", !.lastCall = "init" ]

\* HybridGrassField::update: windTime += deltaTime, in whole ticks
GrassUpdate(f) == [ f EXCEPT !.windTime = @ + 1, !.lastCall = "update" ]

\* HybridGrassField::draw
GrassDraw(f, cameraPos, mapFailed) ==
    IF f.groups = << >> THEN [ f EXCEPT !.drawCalls = << >>, !.lastCall = "draw" ]
    ELSE LET culled == GrassPerformChunkCulling(f, cameraPos, mapFailed)
         IN [ culled EXCEPT !.drawCalls = GrassDrawCalls(culled, 1, 1), !.lastCall = "draw" ]

---------------------------------------------------------------------------
(* The two subsystems driven through their public functions.  They share   *)
(* no state, and a behaviour initialises one of them.                      *)

\* sets of (type, lod) slots whose buffer creation fails
RockBufferFailures == { {}, { <<0, 0>> } }

InitRocks(numTypes, supplied, params, failed) ==
    /\ ~rocks.initialized
    /\ ~grass.initialized
    /\ rocks' = RocksInitWithInstances(rocks, numTypes,
                    [ i \in 1..Len(supplied) |->
                        RockInstance(i, supplied[i][1], supplied[i][2]) ],
                    params, failed)
    /\ UNCHANGED <<grass, genVars, frameVars, playerVars>>

UpdateRocks(cameraPos) ==
    /\ rocks.initialized
    /\ rocks' = RocksUpdate(rocks, cameraPos)
    /\ UNCHANGED <<grass, genVars, frameVars, playerVars>>

\* sets of (type, lod) slots whose Map call fails during one draw()
RockMapFailures == { {}, { <<0, 0>> } }

DrawRocks(cameraPos, mapFailed) ==
    /\ rocks.initialized
    /\ rocks' = RocksDraw(rocks, cameraPos, mapFailed)
    /\ UNCHANGED <<grass, genVars, frameVars, playerVars>>

GrassBufferFailures == { {}, { <<0, 0>> } }

InitGrass(configs, supplied, params, failed) ==
    /\ ~grass.initialized
    /\ ~rocks.initialized
    /\ grass' = GrassInitWithInstances(grass, configs,
                    [ i \in 1..Len(supplied) |->
                        GrassInstance(i, supplied[i][1], supplied[i][2]) ],
                    params, failed)
    /\ UNCHANGED <<rocks, genVars, frameVars, playerVars>>

InitGrassGenerated(configs, params, deviceSeed, failed) ==
    /\ ~grass.initialized
    /\ ~rocks.initialized
    /\ grass' = GrassInit(grass, configs, params, deviceSeed, failed)
    /\ UNCHANGED <<rocks, genVars, frameVars, playerVars>>

UpdateGrass ==
    /\ grass.initialized
    /\ grass.windTime < MaxWindTime
    /\ grass' = GrassUpdate(grass)
    /\ UNCHANGED <<rocks, genVars, frameVars, playerVars>>

\* sets of (group, type) slots whose Map call fails during one draw()
GrassMapFailures == { {}, { <<0, 0>> } }

DrawGrass(cameraPos, mapFailed) ==
    /\ grass.initialized
    /\ grass' = GrassDraw(grass, cameraPos, mapFailed)
    /\ UNCHANGED <<rocks, genVars, frameVars, playerVars>>

---------------------------------------------------------------------------
(* WinMain (Game.cpp): the set-up of rocks and grass from generated items  *)
(* and the game loop, with the command lists, the graphics queue and the   *)
(* two fences of Core (Core.h).  The GPU executes submitted command lists  *)
(* in order, at its own pace.                                              *)

\* most frames the loop begins
MaxFrames == 3
\* spawnExclusionRadius of convertToRockInstances
SpawnExclusionRadius == 1

\* generated rock items (position, typeIndex) the set-up starts from
SceneRockItems ==
    { << >>,
      << << <<-2, -2>>, 0 >>, << <<1, -1>>, 0 >> >>,
      << << <<-2, -2>>, 1 >>, << <<0, 0>>, 2 >>, << <<4, -5>>, 1 >> >> }
\* generated grass items (position, typeIndex)
SceneGrassItems == { << >>, << << <<1, -1>>, 3 >> >> }
\* numbers of rock types of rockSets[0] that load
SceneRockTypes == { 0, 2 }

\* convertToRockInstances: items within the exclusion radius of the spawn
\* point are skipped
ConvertToRockInstances(items) ==
    LET kept == SelectSeq(items,
                    LAMBDA item : ~(item[1][1] * item[1][1] + item[1][2] * item[1][2]
                                      < SpawnExclusionRadius * SpawnExclusionRadius))
    IN [ i \in 1..Len(kept) |-> RockInstance(i, kept[i][1], kept[i][2]) ]

\* convertToGrassInstances with no lake registered in g_lake
ConvertToGrassInstances(items, numGroups, numTypesPerGroup) ==
    [ i \in 1..Len(items) |->
        GrassInstance(i, items[i][1],
            IF numGroups > 0 /\ numTypesPerGroup > 0
            THEN << CMod(items[i][2], numGroups),
                    CMod(TruncDiv(items[i][2], numGroups), numTypesPerGroup) >>
            ELSE << 0, 0 >>) ]

\* where the loop goes after beginFrame, leaving out the update of the systems
PcAfterBegin_NoUpdate(started) == IF started THEN "render" ELSE "menu"

\* where the loop goes after beginFrame
PcAfterBegin(started) == IF started THEN "update" ELSE "menu"

\* what one call of Rocks::draw does, in order: the visibility pass, the
\* repack of the buffers, then one entry per recorded draw call
DrawEvents(pass, drawCalls) ==
    << [op |-> "cull", pass |-> pass], [op |-> "repack", pass |-> pass] >>
    \o [ i \in 1..Len(drawCalls) |-> [op |-> "draw", pass |-> pass] ]

\* the set-up of WinMain: rocks and grass are initialised from the generated
\* items when there are assets and items for them
GameSetup(rockItemsIn, numTypes, grassItemsIn, lakeOk) ==
    /\ framePc = "setup"
    /\ IF rockItemsIn # << >>
       THEN /\ rocks' = RocksInitWithInstances(rocks, numTypes,
                            ConvertToRockInstances(rockItemsIn), <<3, 4>>, {})
            /\ hasRocks' = TRUE
       ELSE /\ rocks' = rocks
            /\ hasRocks' = FALSE
    /\ IF grassItemsIn # << >>
       THEN /\ grass' = GrassInitWithInstances(grass, << 2 >>,
                            ConvertToGrassInstances(grassItemsIn, 1, 2), <<1, 2>>, {})
            /\ hasGrass' = TRUE
       ELSE /\ grass' = grass
            /\ hasGrass' = FALSE
    /\ lakeInitialized' = lakeOk
    /\ framePc' = "top"
    /\ UNCHANGED <<gameStarted, camPos, frameIndex, cmdLists, gpuQueue, fenceValue,
                   fenceCompleted, frameLog, genVars, playerVars>>

\* Core::beginFrame: wait for the fence of the current back buffer, reset
\* its command list
BeginFrame ==
    /\ framePc = "top"
    /\ fenceValue[0] + fenceValue[1] < MaxFrames
    /\ fenceCompleted[frameIndex] >= fenceValue[frameIndex]
    /\ cmdLists' = [cmdLists EXCEPT ![frameIndex] = << >>]
    /\ frameLog' = << >>
    /\ framePc' = PcAfterBegin(gameStarted)
    /\ UNCHANGED <<rocks, grass, hasRocks, hasGrass, lakeInitialized, gameStarted, camPos,
                   frameIndex, gpuQueue, fenceValue, fenceCompleted, genVars, playerVars>>

\* Core::finishFrame: submit the command list, signal the fence, present
FinishFrameEffect ==
    /\ gpuQueue' = Append(gpuQueue, [ index |-> frameIndex,
                                      value |-> fenceValue[frameIndex] + 1,
                                      draws |-> cmdLists[frameIndex] ])
    /\ fenceValue' = [fenceValue EXCEPT ![frameIndex] = @ + 1]
    /\ frameIndex' = 1 - frameIndex
    /\ framePc' = "top"

\* a frame of the start menu; startKeyPressed starts the gameplay
MenuFrame(startKeyPressed) ==
    /\ framePc = "menu"
    /\ gameStarted' = startKeyPressed
    /\ FinishFrameEffect
    /\ UNCHANGED <<rocks, grass, hasRocks, hasGrass, lakeInitialized, camPos, cmdLists,
                   fenceCompleted, frameLog, genVars, playerVars>>

\* grassField.update(dt), rocks.update(camPos), then the player movement
\* that takes the camera to newPos
UpdateSystems(newPos) ==
    /\ framePc = "update"
    /\ grass' = IF hasGrass /\ grass.windTime < MaxWindTime THEN GrassUpdate(grass) ELSE grass
    /\ rocks' = IF hasRocks THEN RocksUpdate(rocks, camPos) ELSE rocks
    /\ frameLog' = IF hasRocks THEN Append(frameLog, [op |-> "update", pass |-> "frame"])
                   ELSE frameLog
    /\ camPos' = newPos
    /\ framePc' = "render"
    /\ UNCHANGED <<hasRocks, hasGrass, lakeInitialized, gameStarted, frameIndex, cmdLists,
                   gpuQueue, fenceValue, fenceCompleted, genVars, playerVars>>

\* lake.beginReflectionPass with RenderSceneForReflection as its callback
ReflectionPass(mapFailed) ==
    /\ framePc = "render"
    /\ IF lakeInitialized /\ hasRocks
       THEN LET drawn == RocksDraw(rocks, camPos, mapFailed)
            IN /\ rocks' = drawn
               /\ cmdLists' = [cmdLists EXCEPT ![frameIndex] = @ \o drawn.drawCalls]
               /\ frameLog' = IF drawn.rockTypes = 0 THEN frameLog
                              ELSE frameLog \o DrawEvents("reflection", drawn.drawCalls)
       ELSE UNCHANGED <<rocks, cmdLists, frameLog>>
    /\ framePc' = "world"
    /\ UNCHANGED <<grass, hasRocks, hasGrass, lakeInitialized, gameStarted, camPos,
                   frameIndex, gpuQueue, fenceValue, fenceCompleted, genVars, playerVars>>

\* the world drawn to the back buffer: rocks.draw, then grassField.draw
DrawWorld(rockMapFailed, grassMapFailed) ==
    /\ framePc = "world"
    /\ LET drawnRocks == IF hasRocks THEN RocksDraw(rocks, camPos, rockMapFailed) ELSE rocks
           drawnGrass == IF hasGrass THEN GrassDraw(grass, camPos, grassMapFailed)
                         ELSE grass
           rockCalls == IF hasRocks THEN drawnRocks.drawCalls ELSE << >>
           grassCalls == IF hasGrass THEN drawnGrass.drawCalls ELSE << >>
       IN /\ rocks' = drawnRocks
          /\ grass' = drawnGrass
          /\ cmdLists' = [cmdLists EXCEPT ![frameIndex] = @ \o rockCalls \o grassCalls]
          /\ frameLog' = IF hasRocks /\ drawnRocks.rockTypes > 0
                         THEN frameLog \o DrawEvents("main", rockCalls)
                         ELSE frameLog
    /\ framePc' = "finish"
    /\ UNCHANGED <<hasRocks, hasGrass, lakeInitialized, gameStarted, camPos, frameIndex,
                   gpuQueue, fenceValue, fenceCompleted, genVars, playerVars>>

\* core.finishFrame() at the end of a gameplay frame
FinishFrame ==
    /\ framePc = "finish"
    /\ FinishFrameEffect
    /\ UNCHANGED <<rocks, grass, hasRocks, hasGrass, lakeInitialized, gameStarted, camPos,
                   cmdLists, fenceCompleted, frameLog, genVars, playerVars>>

\* the GPU finishes the oldest submitted command list and reaches its fence
\* value
GpuExecute ==
    /\ gpuQueue # << >>
    /\ fenceCompleted' = [fenceCompleted EXCEPT ![Head(gpuQueue).index] = Head(gpuQueue).value]
    /\ gpuQueue' = Tail(gpuQueue)
    /\ UNCHANGED <<rocks, grass, hasRocks, hasGrass, lakeInitialized, gameStarted, camPos,
                   framePc, frameIndex, cmdLists, fenceValue, frameLog, genVars, playerVars>>

FrameNext ==
    \/ \E rockItemsIn \in SceneRockItems, numTypes \in SceneRockTypes,
          grassItemsIn \in SceneGrassItems, lakeOk \in BOOLEAN :
          GameSetup(rockItemsIn, numTypes, grassItemsIn, lakeOk)
    \/ BeginFrame
    \/ \E startKeyPressed \in BOOLEAN : MenuFrame(startKeyPressed)
    \/ \E newPos \in CameraPositions : UpdateSystems(newPos)
    \/ \E mapFailed \in RockMapFailures : ReflectionPass(mapFailed)
    \/ \E rockMapFailed \in RockMapFailures, grassMapFailed \in GrassMapFailures :
          DrawWorld(rockMapFailed, grassMapFailed)
    \/ FinishFrame
    \/ GpuExecute

FrameInit ==
    /\ framePc = "setup"
    /\ gameStarted = FALSE
    /\ hasRocks = FALSE
    /\ hasGrass = FALSE
    /\ lakeInitialized = FALSE
    /\ camPos = [x |-> 0, y |-> 2, z |-> 0]
    /\ frameIndex = 0
    /\ cmdLists = [i \in 0..1 |-> << >>]
    /\ gpuQueue = << >>
    /\ fenceValue = [i \in 0..1 |-> 0]
    /\ fenceCompleted = [i \in 0..1 |-> 0]
    /\ frameLog = << >>

---------------------------------------------------------------------------
(* modelState (modelState.h) driving the AnimationInstance of the gun       *)
(* (Animation.h:151-220).  Times are counted in ticks of 1/60 s: the dt    *)
(* clamp of 0.05 s is 3 ticks and the interval of 12 shots per second is 5 *)
(* ticks.                                                                  *)

\* the clip names configured in WinMain (Game.cpp:565-568) and the defaults
IdleClip == "04 idle"
WalkClip == "07 walk"
FireClip == "08 fire"
ReloadClip == "17 reload"
ZoomIdleClip == "zoom"
ZoomWalkClip == "zoom walk"
ZoomFireClip == "zoom fire"

\* the clips in the order of std::map<std::string, AnimationSequence>
ClipOrder ==
    << IdleClip, WalkClip, FireClip, ReloadClip, ZoomIdleClip, ZoomFireClip, ZoomWalkClip >>

\* the animation sets bound to the gun: every clip, the hip clips only, a
\* set without the reload clip, and a set without the idle and walk clips
AnimationSets ==
    { { IdleClip, WalkClip, FireClip, ReloadClip, ZoomIdleClip, ZoomWalkClip, ZoomFireClip },
      { IdleClip, WalkClip, FireClip, ReloadClip },
      { IdleClip, WalkClip, FireClip, ZoomIdleClip, ZoomWalkClip, ZoomFireClip },
      { FireClip, ReloadClip } }

\* frame times the timer reports, in ticks
DtValues == { 2, 5 }
\* std::min(dt, 0.05f)
MaxDt == 3
\* 1.0f / shotsPerSecond
FireInterval == 5
FireAnimRate == 3
ReloadAnimRate == 1

\* AnimationSequence::duration of the clips, in ticks
Duration(clip) == IF clip = ReloadClip THEN 4 ELSE IF clip \in {FireClip, ZoomFireClip} THEN 6 ELSE 8

\* the state of the keys and mouse buttons at one update: the reload key,
\* the zoom button, the fire button, any of W, A, S, D
WindowInputs ==
    [ reload : BOOLEAN, zoom : BOOLEAN, fire : BOOLEAN, moving : {FALSE} ]
        \cup { [ reload |-> FALSE, zoom |-> FALSE, fire |-> FALSE, moving |-> TRUE ] }

\* inst.animation is a null pointer
NullAnimation == {"null"}

\* a modelState object after construction
ModelStateNew ==
    [ action |-> "None", currentClip |-> "", fireAccumulator |-> 0, reloadArmed |-> TRUE,
      pendingZoomAfterReload |-> FALSE, zoomActive |-> FALSE ]

\* modelState::has
Has(name, inst) == inst.animation # NullAnimation /\ name \in inst.animation

\* modelState::pickFireClip
PickFireClip(inst, zoom) ==
    IF zoom /\ Has(ZoomFireClip, inst) THEN ZoomFireClip
    ELSE IF Has(FireClip, inst) THEN FireClip
    ELSE ""

\* modelState::pickLocomotionClip
PickLocomotionClip(inst, moving, zoom) ==
    IF zoom /\ moving /\ Has(ZoomWalkClip, inst) THEN ZoomWalkClip
    ELSE IF zoom /\ ~moving /\ Has(ZoomIdleClip, inst) THEN ZoomIdleClip
    ELSE IF moving /\ Has(WalkClip, inst) THEN WalkClip
    ELSE IF ~moving /\ Has(IdleClip, inst) THEN IdleClip
    ELSE IF inst.animation # NullAnimation /\ inst.animation # {}
    THEN ClipOrder[CHOOSE i \in 1..Len(ClipOrder) :
                      /\ ClipOrder[i] \in inst.animation
                      /\ \A j \in 1..(i - 1) : ClipOrder[j] \notin inst.animation]
    ELSE ""

\* AnimationInstance::resetAnimationTime
ResetAnimationTime(inst) == [ inst EXCEPT !.t = 0 ]

\* AnimationInstance::update, the part that sets the clip and the time
AnimationUpdate(inst, name, dt) ==
    IF name = inst.usingAnimation THEN [ inst EXCEPT !.t = @ + dt ]
    ELSE [ inst EXCEPT !.usingAnimation = name, !.t = 0 ]

\* AnimationInstance::animationFinished
AnimationFinished(inst) == inst.t > Duration(inst.usingAnimation)

\* a reload trigger that is armed again by every update
ReloadArmedAfter_Always(reloadArmed, keyDown) == TRUE

\* if (!w.keys[reloadKey]) reloadArmed = true
ReloadArmedAfter(reloadArmed, keyDown) == IF ~keyDown THEN TRUE ELSE reloadArmed

\* the zoom restored by the intent stored at the start of the reload alone
ZoomAfterReload_PendingOnly(pendingZoomAfterReload, stillWantZoom) == pendingZoomAfterReload

\* zoomActive = pendingZoomAfterReload && stillWantZoom
ZoomAfterReload(pendingZoomAfterReload, stillWantZoom) ==
    pendingZoomAfterReload /\ stillWantZoom

\* the part of update() after the reload handling: zoom, fire, locomotion.
\* Returns the members, the animation instance and the return value
FireOrLocomotion(ms, inst, w, dt) ==
    LET zoomed == [ ms EXCEPT !.zoomActive = w.zoom ]
        fireUse == PickFireClip(inst, zoomed.zoomActive)
    IN IF w.fire /\ fireUse # ""
       THEN LET accumulated == zoomed.fireAccumulator + dt
                shotThisFrame == accumulated >= FireInterval
                clip == IF shotThisFrame THEN fireUse ELSE zoomed.currentClip
                inst1 == IF shotThisFrame THEN ResetAnimationTime(inst) ELSE inst
            IN [ ms |-> [ zoomed EXCEPT !.action = "Fire",
                                        !.fireAccumulator = accumulated % FireInterval,
                                        !.currentClip = clip ],
                 inst |-> AnimationUpdate(inst1, clip, dt * FireAnimRate),
                 result |-> shotThisFrame ]
       ELSE LET desired == PickLocomotionClip(inst, w.moving, zoomed.zoomActive)
                change == desired # "" /\ desired # zoomed.currentClip
                clip == IF change THEN desired ELSE zoomed.currentClip
                inst1 == IF change THEN ResetAnimationTime(inst) ELSE inst
                inst2 == AnimationUpdate(inst1, clip, dt)
            IN [ ms |-> [ zoomed EXCEPT !.action = "None", !.fireAccumulator = 0,
                                        !.currentClip = clip ],
                 inst |-> IF AnimationFinished(inst2) THEN ResetAnimationTime(inst2)
                          ELSE inst2,
                 result |-> FALSE ]

\* modelState::update(w, inst, dt).  Returns the members, the animation
\* instance, the return value, and whether the call read the keys, started
\* a reload and finished one
Update(ms, inst, w, dtReported) ==
    IF inst.animation = NullAnimation
    THEN [ ms |-> ms, inst |-> inst, result |-> FALSE, observed |-> FALSE,
           started |-> FALSE, finished |-> FALSE ]
    ELSE
      LET dt == IF dtReported < MaxDt THEN dtReported ELSE MaxDt
          armed == ReloadArmedAfter(ms.reloadArmed, w.reload)
          reloadPressed == armed /\ w.reload
          first == ms.currentClip = ""
          ms1 == IF first
                 THEN [ ms EXCEPT !.reloadArmed = armed, !.zoomActive = w.zoom,
                                  !.currentClip = PickLocomotionClip(inst, w.moving, w.zoom) ]
                 ELSE [ ms EXCEPT !.reloadArmed = armed ]
          inst1 == IF first THEN ResetAnimationTime(inst) ELSE inst
          started == reloadPressed /\ Has(ReloadClip, inst)
          ms2 == IF started
                 THEN [ ms1 EXCEPT !.reloadArmed = FALSE,
                                   !.pendingZoomAfterReload = w.zoom,
                                   !.zoomActive = FALSE,
                                   !.action = "Reload",
                                   !.currentClip = ReloadClip,
                                   !.fireAccumulator = 0 ]
                 ELSE ms1
          inst2 == IF started THEN ResetAnimationTime(inst1) ELSE inst1
      IN IF ms2.action = "Reload"
         THEN LET inst3 == AnimationUpdate(inst2, ms2.currentClip, dt * ReloadAnimRate)
              IN IF AnimationFinished(inst3)
                 THEN LET zoom == ZoomAfterReload(ms2.pendingZoomAfterReload, w.zoom)
                      IN [ ms |-> [ ms2 EXCEPT !.action = "None",
                                               !.zoomActive = zoom,
                                               !.pendingZoomAfterReload = FALSE,
                                               !.currentClip =
                                                   PickLocomotionClip(inst3, w.moving, zoom) ],
                           inst |-> ResetAnimationTime(inst3),
                           result |-> FALSE, observed |-> TRUE,
                           started |-> started, finished |-> TRUE ]
                 ELSE [ ms |-> ms2, inst |-> inst3, result |-> FALSE, observed |-> TRUE,
                        started |-> started, finished |-> FALSE ]
         ELSE LET rest == FireOrLocomotion(ms2, inst2, w, dt)
              IN [ ms |-> rest.ms, inst |-> rest.inst, result |-> rest.result,
                   observed |-> TRUE, started |-> FALSE, finished |-> FALSE ]

\* no update() call was made yet.  zoomAtStart: the zoom button at the start
\* of the latest reload; everStarted: a reload was started; releasedSince:
\* an update since the latest reload start saw the reload key released
NoUpdate ==
    [ called |-> FALSE, w |-> [ reload |-> FALSE, zoom |-> FALSE, fire |-> FALSE,
                                moving |-> FALSE ],
      result |-> FALSE, started |-> FALSE, finished |-> FALSE,
      zoomAtStart |-> FALSE, everStarted |-> FALSE, releasedSince |-> FALSE ]

\* gunAnim.init(&gunModel.animation, 0) (Game.cpp:546)
GunAnimInit(clips) ==
    /\ gunAnim.animation = NullAnimation
    /\ gunAnim' = [ gunAnim EXCEPT !.animation = clips ]
    /\ UNCHANGED <<modelState, lastUpdate, rockInstances, lastMove>>
    /\ UNCHANGED <<genVars, fieldVars, frameVars>>

\* modelState.update(window, gunAnim, dt) of one frame (Game.cpp:808)
UpdateGunState(w, dt) ==
    /\ LET u == Update(modelState, gunAnim, w, dt)
       IN /\ modelState' = u.ms
          /\ gunAnim' = u.inst
          /\ lastUpdate' =
                [ called |-> TRUE, w |-> w, result |-> u.result,
                  started |-> u.started, finished |-> u.finished,
                  zoomAtStart |-> IF u.started THEN w.zoom ELSE lastUpdate.zoomAtStart,
                  everStarted |-> lastUpdate.everStarted \/ u.started,
                  releasedSince |-> IF u.started THEN FALSE
                                    ELSE lastUpdate.releasedSince
                                             \/ (u.observed /\ ~w.reload) ]
    /\ UNCHANGED <<rockInstances, lastMove>>
    /\ UNCHANGED <<genVars, fieldVars, frameVars>>

GunNext ==
    \/ \E clips \in AnimationSets : GunAnimInit(clips)
    \/ \E w \in WindowInputs, dt \in DtValues : UpdateGunState(w, dt)

GunInit ==
    /\ modelState = ModelStateNew
    /\ gunAnim = [ animation |-> NullAnimation, usingAnimation |-> "", t |-> 0 ]
    /\ lastUpdate = NoUpdate

---------------------------------------------------------------------------
(* The player movement with collision of the game loop (Game.cpp:736-801). *)
(* Positions are in units of 0.25 m.  An input of a frame is the keys and  *)
(* the vector forwardFlat * (currentSpeed * dt): the view direction, the   *)
(* sprint key and the frame time together; dt is at most 0.05 s             *)
(* (Game.cpp:639), so the vector is at most 0.6 m long.                    *)

\* half of terrainSizeX = terrainSizeZ
MoveHalf == 28
MoveSize == 2 * MoveHalf
\* playerRadius, 0.5
PlayerRadius == 2
\* the border of 1.0 kept to the edge of the terrain
WorldBorder == 4
\* the 0.5 subtracted from the radius of the lake in checkLakeCollision
LakeMargin == 2
\* lake.config.center and lake.config.radius
LakeCenterX == 10
LakeCenterZ == 16
LakeRadius == 8
\* spawnExclusionRadius of convertToRockInstances, 5.0
MoveSpawnExclusion == 20

\* forwardFlat * (currentSpeed * dt) for the view directions along the axes
\* and along the diagonals
StepVectors ==
    { <<2, 0>>, <<-2, 0>>, <<0, 2>>, <<0, -2>>, <<1, 1>>, <<-1, -1>>, <<1, -1>>, <<-1, 1>> }

\* the W, S, A, D keys of a frame
MoveKeys == [ W : BOOLEAN, S : BOOLEAN, A : BOOLEAN, D : BOOLEAN ]

\* a RockInstance as far as the collision test reads it; scale counts
\* halves, so that scale * 1.5 is 3 units for each
Collider(x, z, scale) == [ x |-> x, z |-> z, scale |-> scale ]

\* the rock items a generate call leaves, as (x, z, scale): none, or one by
\* the spawn point, one by the east border and one by the west border
GeneratedRockScenes ==
    { << >>, << <<3, -4, 1>>, <<26, 6, 1>>, <<-20, -4, 1>> >> }

\* convertToRockInstances, as far as the collision test reads the result:
\* the items within the exclusion radius of the spawn point are left out
ConvertColliders(items) ==
    LET kept == SelectSeq(items,
                    LAMBDA item : ~(item[1] * item[1] + item[2] * item[2]
                                      < MoveSpawnExclusion * MoveSpawnExclusion))
    IN [ i \in 1..Len(kept) |-> Collider(kept[i][1], kept[i][2], kept[i][3]) ]

\* checkRockCollision
CheckRockCollision(position, instances, playerRadius) ==
    \E i \in 1..Len(instances) :
        LET rockRadius == instances[i].scale * 3
            dx == position.x - instances[i].x
            dz == position.z - instances[i].z
            minDist == playerRadius + rockRadius
        IN dx * dx + dz * dz < minDist * minDist

\* checkLakeCollision
CheckLakeCollision(position, playerRadius) ==
    LET dx == position.x - LakeCenterX
        dz == position.z - LakeCenterZ
        waterEdge == LakeRadius - playerRadius - LakeMargin
    IN dx * dx + dz * dz < waterEdge * waterEdge

\* the two tests of the movement code on one position
Blocked(position, withRocks, instances) ==
    \/ CheckLakeCollision(position, PlayerRadius)
    \/ withRocks /\ CheckRockCollision(position, instances, PlayerRadius)

\* the clamp of newPos to the terrain less the border (Game.cpp:759-764)
ClampToWorld(v, half) ==
    IF v < -half + WorldBorder THEN -half + WorldBorder
    ELSE IF v > half - WorldBorder THEN half - WorldBorder
    ELSE v

\* newPosX.x < 1.0f || newPosX.x > terrainSizeX - 1.0f makes canMoveX false
SlideInRange(v, size) == ~(v < WorldBorder \/ v > size - WorldBorder)

\* newPos after the four key tests (Game.cpp:742-745); rightFlat is
\* Cross(worldUp, forwardFlat) = (forwardFlat.z, 0, -forwardFlat.x)
WantedPosition(pos, keys, f) ==
    LET r == << f[2], -f[1] >>
        w == IF keys.W THEN 1 ELSE 0
        s == IF keys.S THEN 1 ELSE 0
        a == IF keys.A THEN 1 ELSE 0
        d == IF keys.D THEN 1 ELSE 0
    IN [ pos EXCEPT !.x = @ + (w - s) * f[1] + (d - a) * r[1],
                    !.z = @ + (w - s) * f[2] + (d - a) * r[2] ]

\* the direction the sliding branch moves along: the W/S direction, replaced
\* by the A/D direction when A or D is down (Game.cpp:776-787)
SlideVector(keys, f) ==
    LET r == << f[2], -f[1] >>
    IN IF keys.A \/ keys.D THEN (IF keys.D THEN r ELSE << -r[1], -r[2] >>)
       ELSE IF keys.W \/ keys.S THEN (IF keys.W THEN f ELSE << -f[1], -f[2] >>)
       ELSE << 0, 0 >>

\* the movement of one frame: the camera position after it and the branch
\* that resolved it.  camPos.y follows the height of the terrain, which the
\* collision tests do not read; it is left as it is
MovePlayer(pos, keys, f, withRocks, instances) ==
    LET newPos == WantedPosition(pos, keys, f)
        canMove == ~Blocked(newPos, withRocks, instances)
        clamped == [ newPos EXCEPT !.x = ClampToWorld(@, MoveHalf),
                                   !.z = ClampToWorld(@, MoveHalf) ]
        v == SlideVector(keys, f)
        newPosX == [ pos EXCEPT !.x = @ + v[1] ]
        newPosZ == [ pos EXCEPT !.z = @ + v[2] ]
        canMoveX == /\ ~Blocked(newPosX, withRocks, instances)
                    /\ SlideInRange(newPosX.x, MoveSize)
        canMoveZ == /\ ~Blocked(newPosZ, withRocks, instances)
                    /\ SlideInRange(newPosZ.z, MoveSize)
    IN IF canMove
       THEN [ pos |-> clamped, branch |-> "free" ]
       ELSE [ pos |-> [ pos EXCEPT !.x = IF canMoveX THEN newPosX.x ELSE @,
                                   !.z = IF canMoveZ THEN newPosZ.z ELSE @ ],
              branch |-> "slide" ]

\* no movement step was made yet.  phase: whether the colliders were set up;
\* startBlocked, startInside: whether the camera position at the start of
\* the latest movement step collided, and whether it was inside the border
NoMove == [ phase |-> "setup", branch |-> "none", startBlocked |-> FALSE, startInside |-> TRUE ]

\* rockInstances = convertToRockInstances(generatedRocks) and hasRocks = true
\* when there are rock sets and rocks (Game.cpp:458-481)
SetupColliders(generatedRocks) ==
    /\ lastMove.phase = "setup"
    /\ IF generatedRocks # << >>
       THEN /\ rockInstances' = ConvertColliders(generatedRocks)
            /\ hasRocks' = TRUE
       ELSE /\ rockInstances' = rockInstances
            /\ hasRocks' = hasRocks
    /\ lastMove' = [ lastMove EXCEPT !.phase = "loop" ]
    /\ UNCHANGED <<modelState, gunAnim, lastUpdate>>
    /\ UNCHANGED <<framePc, gameStarted, hasGrass, lakeInitialized, camPos, frameIndex,
                   cmdLists, gpuQueue, fenceValue, fenceCompleted, frameLog>>
    /\ UNCHANGED <<genVars, fieldVars>>

\* the player movement of one frame of the game loop (Game.cpp:736-801)
MovementStep(keys, f) ==
    /\ lastMove.phase = "loop"
    /\ LET moved == MovePlayer(camPos, keys, f, hasRocks, rockInstances)
       IN /\ camPos' = moved.pos
          /\ lastMove' = [ lastMove EXCEPT
                              !.branch = moved.branch,
                              !.startBlocked = Blocked(camPos, hasRocks, rockInstances),
                              !.startInside = /\ ClampToWorld(camPos.x, MoveHalf) = camPos.x
                                              /\ ClampToWorld(camPos.z, MoveHalf) = camPos.z ]
    /\ UNCHANGED <<modelState, gunAnim, lastUpdate, rockInstances>>
    /\ UNCHANGED <<framePc, gameStarted, hasRocks, hasGrass, lakeInitialized, frameIndex,
                   cmdLists, gpuQueue, fenceValue, fenceCompleted, frameLog>>
    /\ UNCHANGED <<genVars, fieldVars>>

MoveNext ==
    \/ \E generatedRocks \in GeneratedRockScenes : SetupColliders(generatedRocks)
    \/ \E keys \in MoveKeys, f \in StepVectors : MovementStep(keys, f)

PlayerInit ==
    /\ GunInit
    /\ rockInstances = << >>
    /\ lastMove = NoMove

---------------------------------------------------------------------------
(* Specifications. *)

FieldNext ==
    \/ \E numTypes \in RockPalettes, supplied \in RockInputLists(MaxInst),
          params \in RockParams, failed \in RockBufferFailures :
          InitRocks(numTypes, supplied, params, failed)
    \/ \E cameraPos \in CameraPositions : UpdateRocks(cameraPos)
    \/ \E cameraPos \in CameraPositions, mapFailed \in RockMapFailures :
          DrawRocks(cameraPos, mapFailed)
    \/ \E configs \in GrassGroupConfigs, supplied \in GrassInputLists(MaxInst),
          params \in GrassParams, failed \in GrassBufferFailures :
          InitGrass(configs, supplied, params, failed)
    \/ \E configs \in GrassInitConfigs, params \in GrassInitParams,
          deviceSeed \in GrassDeviceSeeds, failed \in GrassBufferFailures :
          InitGrassGenerated(configs, params, deviceSeed, failed)
    \/ UpdateGrass
    \/ \E cameraPos \in CameraPositions, mapFailed \in GrassMapFailures :
          DrawGrass(cameraPos, mapFailed)

Init ==
    /\ GenInit
    /\ rocks = RocksNew
    /\ grass = GrassNew
    /\ FrameInit
    /\ PlayerInit

Next == GenNext

\* VegetationGenerator::generate called any number of times
Spec == Init /\ [][Next]_vars

\* a Rocks or a HybridGrassField initialised once, then updated and drawn
SpecField == Init /\ [][FieldNext]_vars

\* WinMain: the set-up, then the game loop with the GPU running beside it
SpecFrame == Init /\ [][FrameNext]_vars

\* a SpatialHashGrid initialised, filled and queried
SpecGrid == Init /\ [][GridNext]_vars

\* modelState::update called once a frame on the animation instance of the gun
SpecGun == Init /\ [][GunNext]_vars

\* the player movement of the game loop, frame after frame
SpecMove == Init /\ [][MoveNext]_vars
---------------------------------------------------------------------------
(* Claims about the generator. *)

AllItems == grassItems \o rockItems
DistSq(a, b) == (a.x - b.x) * (a.x - b.x) + (a.z - b.z) * (a.z - b.z)
NoOverlapIn(items) ==
    \A i, j \in 1..Len(items) :
        i # j => DistSq(items[i], items[j])
                    >= (items[i].radius + items[j].radius) * (items[i].radius + items[j].radius)

\* C1: accepted items of the same category never overlap: for every pair of
\* grass items, and for every pair of rock items, the XZ distance is at least
\* the sum of the two scaled radii.
C1_SpacingInvariant == NoOverlapIn(grassItems) /\ NoOverlapIn(rockItems)


\* the previous finished call had the arguments of the call that just finished
SameArgsTwice == genPc = "done" /\ prevRun # << >> /\ prevRun[1].args = genArgs
SameOutputTwice ==
    prevRun[1].grassItems = grassItems /\ prevRun[1].rockItems = rockItems

\* C2 (as stated): two successive calls of generate with the same seed
\* argument, config, world size and terrain produce identical grassItems and
\* rockItems.
C2_Determinism == SameArgsTwice => SameOutputTwice

\* C2 (amended): two successive calls of generate with the same non-zero seed
\* argument, config, world size and terrain produce identical grassItems and
\* rockItems; the state left by the first call does not influence the second.
C2_DeterminismNonZeroSeed ==
    (SameArgsTwice /\ genArgs.seed # 0) => SameOutputTwice

\* a repeated call with a non-zero seed finished with several items placed
C2_Witness ==
    /\ SameArgsTwice
    /\ genArgs.seed # 0
    /\ Len(grassItems) + Len(rockItems) >= 3

\* C3: every accepted item sits where the terrain height is within
\* [minHeight, maxHeight] and the slope angle is within [minSlope, maxSlope],
\* whether it was placed at a spawn point, as a cluster center or as a
\* cluster member.
C3_TerrainConstraints ==
    \A k \in 1..Len(AllItems) :
        LET item == AllItems[k]
            cfg == genArgs.cfg
            height == SampleHeightWorld(genArgs.terrain, item.x, item.z)
            slope == SlopeAngle(genArgs.terrain, item.x, item.z)
        IN /\ cfg.minHeight <= height /\ height <= cfg.maxHeight
           /\ cfg.minSlope <= slope /\ slope <= cfg.maxSlope

\* an item was accepted on the ridge terrain away from every spawn point
\* (a cluster member)
C3_Witness ==
    /\ genArgs.terrain = "ridge"
    /\ \E k \in 1..Len(AllItems) :
          /\ \A p \in 1..Len(spawnPoints) :
                <<AllItems[k].x, AllItems[k].z>> # spawnPoints[p]


\* C15: with rockProbability = 0 and both cluster probabilities = 0 on a flat
\* plane, generate produces grass items only: rockItems stays empty, no
\* cluster is generated, and every grass item has a typeIndex in 0..8.
C15_GrassOnly ==
    (/\ genPc # "idle"
     /\ genArgs.terrain = "flat"
     /\ genArgs.cfg.rockProbability = 0
     /\ genArgs.cfg.grassCluster.probability = 0
     /\ genArgs.cfg.rockCluster.probability = 0)
    => /\ rockItems = << >>
       /\ genPc # "cluster"
       /\ \A k \in 1..Len(grassItems) : grassItems[k].typeIndex \in 0..8

\* C16: the overlap test never looks across categories: whenever tryPlaceItem
\* rejects a candidate for overlap, a stored item of the candidate's own
\* category overlaps it, so a grass candidate is never rejected because of a
\* rock item alone, nor a rock candidate because of a grass item alone.
C16_NoCrossCategoryCheck ==
    (lastQuery.called /\ lastQuery.result) => lastQuery.type \in lastQuery.blockers

\* the stored height is outside [minHeight, maxHeight] at every grid point
HeightOutsideEverywhere(ter, cfg) ==
    /\ ter # "none"
    /\ \A ix \in 0..SizeX, iz \in 0..SizeZ :
          HeightAt(ter, ix, iz) < cfg.minHeight \/ HeightAt(ter, ix, iz) > cfg.maxHeight

\* C17: when the terrain height is outside [minHeight, maxHeight] at every
\* point of the world, generate places nothing: grassItems and rockItems
\* are empty throughout and at the end of the call, for every seed.
C17_NothingOnExcludedHeights ==
    (genPc # "idle" /\ HeightOutsideEverywhere(genArgs.terrain, genArgs.cfg))
        => grassItems = << >> /\ rockItems = << >>

\* a call with the height range 100 m to 200 m on the flat terrain finished
C17_Witness ==
    /\ genPc = "done"
    /\ genArgs.cfg.minHeight > 0
    /\ HeightOutsideEverywhere(genArgs.terrain, genArgs.cfg)
    /\ genArgs.seed # 0

\* some stored item overlaps the circle, decided over all stored items
BruteForceOverlap(grid, x, z, radius) ==
    \E item \in GridItems(grid) :
        (item.x - x) * (item.x - x) + (item.z - z) * (item.z - z)
            < (item.radius + radius) * (item.radius + radius)

LargestStoredRadius(grid) ==
    IF GridItems(grid) = {} THEN 0
    ELSE CHOOSE r \in { item.radius : item \in GridItems(grid) } :
            \A item \in GridItems(grid) : item.radius <= r

InsideGrid(grid, x, z) ==
    /\ -grid.offsetX <= x /\ x <= grid.offsetX
    /\ -grid.offsetZ <= z /\ z <= grid.offsetZ

\* the precondition of C18 for the last query
CellSizeCoversQuery ==
    /\ lastQuery.called
    /\ spatialGrid.cellSize >= LargestStoredRadius(spatialGrid) + lastQuery.radius
    /\ InsideGrid(spatialGrid, lastQuery.x, lastQuery.z)
    /\ \A item \in GridItems(spatialGrid) : InsideGrid(spatialGrid, item.x, item.z)

\* C18: when cellSize is at least the largest stored radius plus the query
\* radius and the query point and all stored items lie inside the grid,
\* checkOverlap(x, z, r) is true exactly when some stored item is closer than
\* the sum of the radii (strictly): the 3x3 scan agrees with a scan of all
\* stored items, in interior cells and in cells on the border of the grid.
C18_ScanAgreesWithBruteForce ==
    CellSizeCoversQuery =>
        (lastQuery.result
            <=> BruteForceOverlap(spatialGrid, lastQuery.x, lastQuery.z, lastQuery.radius))

\* a query in the corner cell of the grid found the overlapping item stored
\* in a neighbouring cell, and did not count a touching item as overlapping
C18_Witness ==
    /\ CellSizeCoversQuery
    /\ lastQuery.result
    /\ lastQuery.x = GridHalf /\ lastQuery.z = GridHalf
    /\ \A item \in GridItems(spatialGrid) :
          GetCellIndex(spatialGrid, item.x, item.z)
              # GetCellIndex(spatialGrid, lastQuery.x, lastQuery.z)

\* the items of a list
ItemsOf(list) == { list[i] : i \in 1..Len(list) }

\* the spatial grid stores the items of both output lists and nothing else
GridHoldsLists ==
    /\ GridItems(spatialGrid) = ItemsOf(grassItems) \cup ItemsOf(rockItems)
    /\ GridCount(spatialGrid) = Len(grassItems) + Len(rockItems)

\* what one iteration of a placement loop does to the lists and the grid:
\* nothing unless its tryPlaceItem call returned true, else one item at the
\* requested position appended to the list of the requested category only
\* and stored in the grid
PlacementEffect ==
    genPc \in {"placing", "cluster"} =>
        IF lastPlace'.called /\ lastPlace'.placed
        THEN LET list == IF lastPlace'.type = "Rock" THEN rockItems ELSE grassItems
                 listAfter == IF lastPlace'.type = "Rock" THEN rockItems' ELSE grassItems'
                 item == listAfter[Len(listAfter)]
             IN /\ listAfter = Append(list, item)
                /\ item.type = lastPlace'.type
                /\ item.x = lastPlace'.x /\ item.z = lastPlace'.z
                /\ IF lastPlace'.type = "Rock" THEN grassItems' = grassItems
                   ELSE rockItems' = rockItems
                /\ GridItems(spatialGrid') = GridItems(spatialGrid) \cup {item}
                /\ GridCount(spatialGrid') = GridCount(spatialGrid) + 1
        ELSE /\ grassItems' = grassItems
             /\ rockItems' = rockItems
             /\ spatialGrid' = spatialGrid

\* C21: a tryPlaceItem call that returns false leaves grassItems, rockItems
\* and the spatial grid unchanged; one that returns true appends exactly one
\* item to the list of the requested category, to no other list, and inserts
\* that item into the spatial grid; so the grid always stores exactly the
\* items of grassItems and rockItems.
C21_PlacementFrame == [][PlacementEffect]_vars /\ []GridHoldsLists

\* a rock and a grass item were placed, and the last call was refused
C21_Witness ==
    /\ Len(rockItems) > 0
    /\ Len(grassItems) > 0
    /\ lastPlace.called /\ ~lastPlace.placed

ItemsHeld == Len(grassItems) + Len(rockItems)

\* inside generateCluster: the drawn count lies in [minItems, maxItems], and
\* the attempts made and the items added so far are bounded by the loop
\* variable
ClusterBounded ==
    genPc = "cluster" =>
        LET cc == ClusterConfigOf(genArgs.cfg, cluster.type)
        IN /\ cc.minItems <= cluster.itemCount /\ cluster.itemCount <= cc.maxItems
           /\ 1 <= cluster.i /\ cluster.i < cluster.itemCount
           /\ 1 <= cluster.attempts /\ cluster.attempts <= cluster.i
           /\ ItemsHeld - cluster.base <= cluster.attempts

\* one iteration of the member loop: at most one attempt, none for a member
\* outside the world rectangle, at most one item more, and the loop moves on
\* to the next member or ends the cluster, whatever the attempt returned
ClusterIteration ==
    genPc = "cluster" =>
        /\ lastPlace'.called =>
              /\ -HalfX <= lastPlace'.x /\ lastPlace'.x <= HalfX
              /\ -HalfZ <= lastPlace'.z /\ lastPlace'.z <= HalfZ
        /\ ItemsHeld' - ItemsHeld = IF lastPlace'.called /\ lastPlace'.placed THEN 1 ELSE 0
        /\ ItemsHeld' - cluster.base <= cluster.i + 1
        /\ cluster.i + 1 <= ClusterConfigOf(genArgs.cfg, cluster.type).maxItems
        /\ IF cluster.i + 1 < cluster.itemCount
           THEN /\ genPc' = "cluster"
                /\ cluster'.i = cluster.i + 1
                /\ cluster'.itemCount = cluster.itemCount
           ELSE /\ genPc' # "cluster"
                /\ pointIdx' = pointIdx + 1

\* C22: generateCluster attempts the center once and then makes at most
\* count - 1 attempts for further members, count drawn in [minItems,
\* maxItems]; a member outside the world rectangle or refused by the terrain
\* or overlap check is not retried, so a cluster adds at most maxItems items
\* and ends after count iterations.
C22_ClusterAttempts == []ClusterBounded /\ [][ClusterIteration]_vars

\* a cluster of three is at its last member, one earlier member was skipped
\* or refused
C22_Witness ==
    /\ genPc = "cluster"
    /\ cluster.itemCount = 3
    /\ cluster.i = 2
    /\ ItemsHeld - cluster.base < cluster.i

\* a member of a cluster fell outside the world rectangle and was skipped
C22_SkippedMember == genPc = "cluster" /\ cluster.attempts < cluster.i

\* the position lies in the world rectangle and in a cell of the grid
InWorldAndGrid(x, z) ==
    /\ x >= -HalfX /\ x <= HalfX
    /\ z >= -HalfZ /\ z <= HalfZ
    /\ GetCellIndex(spatialGrid, x, z) >= 0
    /\ GetCellIndex(spatialGrid, x, z) < Len(spatialGrid.cells)

\* every accepted item lies in the world rectangle, has a cell of the grid
\* and is stored in that cell
AcceptedItemsInWorld ==
    \A item \in ItemsOf(grassItems) \cup ItemsOf(rockItems) :
        /\ InWorldAndGrid(item.x, item.z)
        /\ \E k \in 1..Len(spatialGrid.cells[GetCellIndex(spatialGrid, item.x, item.z) + 1]) :
              spatialGrid.cells[GetCellIndex(spatialGrid, item.x, item.z) + 1][k] = item

\* an item placed at a spawn point lies inside the border of one unit of
\* length, two units of the model
SpawnPointItemInsideBorder ==
    (PlacePoint /\ lastPlace'.called /\ lastPlace'.placed) =>
        /\ lastPlace'.x >= -HalfX + 2 /\ lastPlace'.x <= HalfX - 2
        /\ lastPlace'.z >= -HalfZ + 2 /\ lastPlace'.z <= HalfZ - 2

\* C28: every item accepted by generate lies inside the world rectangle
\* [-sizeX/2, sizeX/2] x [-sizeZ/2, sizeZ/2], an item placed at a grid spawn
\* point inside the inner border of one unit, so the cell index of an
\* accepted item is in range and SpatialHashGrid::insert stores it.
C28_AcceptedItemsInWorld == []AcceptedItemsInWorld /\ [][SpawnPointItemInsideBorder]_vars

\* a cluster member was accepted outside the inner border, and the grid holds it
C28_Witness ==
    /\ genPc = "cluster"
    /\ lastPlace.called /\ lastPlace.placed
    /\ cluster.attempts > 1
    /\ \/ lastPlace.x < -HalfX + 2 \/ lastPlace.x > HalfX - 2
       \/ lastPlace.z < -HalfZ + 2 \/ lastPlace.z > HalfZ - 2
    /\ GridHoldsLists

---------------------------------------------------------------------------
(* Claims about Rocks and HybridGrassField. *)

\* every instance a subsystem holds in its chunks
RECURSIVE ChunkInstancesFrom(_, _)
ChunkInstancesFrom(chunks, k) ==
    IF k > Len(chunks) THEN << >>
    ELSE chunks[k].instances \o ChunkInstancesFrom(chunks, k + 1)

SeqRange(s) == { s[i] : i \in 1..Len(s) }
HeldRocks == SeqRange(rocks.allInstances) \cup SeqRange(ChunkInstancesFrom(rocks.chunks, 1))
HeldGrass == SeqRange(grass.allInstances) \cup SeqRange(ChunkInstancesFrom(grass.chunks, 1))

\* C4: after initWithInstances with a non-empty loaded palette, every rock
\* instance held (in allInstances and in every chunk) has
\* 0 <= typeIndex < number of loaded types, and every grass instance held has
\* 0 <= groupIndex < number of loaded groups and 0 <= typeIndex < number of
\* types of that group, whatever indices were supplied.
C4_IndexValidity ==
    /\ (rocks.initialized /\ rocks.rockTypes > 0) =>
          \A inst \in HeldRocks : 0 <= inst.typeIndex /\ inst.typeIndex < rocks.rockTypes
    /\ (grass.initPath = "supplied" /\ grass.groups # << >>) =>
          \A inst \in HeldGrass :
              /\ 0 <= inst.groupIndex /\ inst.groupIndex < Len(grass.groups)
              /\ 0 <= inst.typeIndex
              /\ inst.typeIndex < grass.groups[inst.groupIndex + 1]

\* rocks were initialised with two loaded types and two supplied instances,
\* which now sit in the chunks with the type indices 0 and 1
C4_Witness ==
    /\ rocks.initialized
    /\ rocks.rockTypes = 2
    /\ Len(rocks.allInstances) = 2
    /\ { inst.typeIndex : inst \in SeqRange(ChunkInstancesFrom(rocks.chunks, 1)) } = {0, 1}

\* C5: the number of records performChunkCulling copies into an instance
\* buffer never exceeds the capacity the buffer was created with, for every
\* (type, LOD) buffer of the rocks and every (group, type) buffer of the grass.
C5_CopyWithinCapacity ==
    /\ \A t \in 1..Len(rocks.instanceBuffersByType) : \A l \in 1..3 :
          rocks.instanceBuffersByType[t][l].exists =>
              rocks.instanceBuffersByType[t][l].copied
                  <= rocks.instanceBuffersByType[t][l].capacity
    /\ \A g \in 1..Len(grass.instanceBuffers) : \A t \in 1..Len(grass.instanceBuffers[g]) :
          grass.instanceBuffers[g][t].exists =>
              grass.instanceBuffers[g][t].copied <= grass.instanceBuffers[g][t].capacity

\* every instance of a rock type was copied into the buffer of LOD 0, filling
\* it to its capacity
C5_Witness ==
    \E t \in 1..Len(rocks.instanceBuffersByType) :
        /\ rocks.instanceBuffersByType[t][1].exists
        /\ rocks.instanceBuffersByType[t][1].capacity = MaxInst
        /\ rocks.instanceBuffersByType[t][1].copied = MaxInst

Occurrences(list, inst) == Cardinality({ j \in 1..Len(list) : list[j] = inst })

WithinCullRange(chunk, P, viewDistance, chunkSize) ==
    (chunk.centerX2 - 2 * P.x) * (chunk.centerX2 - 2 * P.x)
    + (chunk.centerZ2 - 2 * P.z) * (chunk.centerZ2 - 2 * P.z)
        <= (2 * viewDistance + chunkSize) * (2 * viewDistance + chunkSize)

\* C7: after performChunkCulling(P) a chunk is marked visible iff the XZ
\* distance of its center to P is at most viewDistance + chunkSize / 2; the
\* camera height plays no part and every flag is that of the last call.
C7_VisibleIffInRange ==
    /\ rocks.cullPos # << >> =>
          \A k \in 1..Len(rocks.chunks) :
              rocks.chunks[k].isVisible
                  <=> WithinCullRange(rocks.chunks[k], rocks.cullPos[1],
                                      rocks.viewDistance, rocks.chunkSize)
    /\ grass.cullPos # << >> =>
          \A k \in 1..Len(grass.chunks) :
              grass.chunks[k].isVisible
                  <=> WithinCullRange(grass.chunks[k], grass.cullPos[1],
                                      grass.viewDistance, grass.chunkSize)

\* culling ran from a raised camera and left a visible and an invisible
\* rock chunk
C7_Witness ==
    /\ rocks.cullPos # << >>
    /\ rocks.cullPos[1].y > 0
    /\ \E k \in 1..Len(rocks.chunks) : rocks.chunks[k].isVisible
    /\ \E k \in 1..Len(rocks.chunks) : ~rocks.chunks[k].isVisible

CameraDistSq(inst, P) == (inst.x - P.x) * (inst.x - P.x) + (inst.z - P.z) * (inst.z - P.z)

\* C8: after Rocks::update(cameraPos) every rock instance of every chunk has
\* lodLevel 0 iff its XZ distance d to cameraPos is below lodDistanceHigh,
\* 1 iff lodDistanceHigh <= d < lodDistanceMedium, and 2 otherwise.
C8_LodByDistance ==
    rocks.lodPos # << >> =>
        \A inst \in SeqRange(ChunkInstancesFrom(rocks.chunks, 1)) :
            LET dSq == CameraDistSq(inst, rocks.lodPos[1])
            IN /\ inst.lodLevel = 0 <=> dSq < LodDistanceHigh * LodDistanceHigh
               /\ inst.lodLevel = 1 <=> /\ LodDistanceHigh * LodDistanceHigh <= dSq
                                        /\ dSq < LodDistanceMedium * LodDistanceMedium
               /\ inst.lodLevel = 2 <=> LodDistanceMedium * LodDistanceMedium <= dSq

\* update ran with one instance exactly lodDistanceHigh away (level 1) and
\* one instance closer than that (level 0)
C8_Witness ==
    /\ rocks.lodPos # << >>
    /\ \E inst \in SeqRange(ChunkInstancesFrom(rocks.chunks, 1)) :
          /\ CameraDistSq(inst, rocks.lodPos[1]) = LodDistanceHigh * LodDistanceHigh
          /\ inst.lodLevel = 1
    /\ \E inst \in SeqRange(ChunkInstancesFrom(rocks.chunks, 1)) : inst.lodLevel = 0


\* the draw calls of one subsystem read what the same draw() call wrote
FreshDrawCalls(drawCalls, visibleOf(_)) ==
    \A i \in 1..Len(drawCalls) :
        /\ drawCalls[i].count > 0
        /\ drawCalls[i].fresh
        /\ drawCalls[i].records = InstanceIds(visibleOf(drawCalls[i]))

\* C11: every instanced draw that draw() issues has an instance count n > 0
\* and reads n records that the repack of the same draw() call wrote, whatever
\* the outcome of the Map calls; a bucket with no visible instance is neither
\* written nor drawn.
C11_NoStaleRead ==
    /\ FreshDrawCalls(rocks.drawCalls,
          LAMBDA c : rocks.visibleInstancesByTypeLOD[c.type + 1][c.lod + 1])
    /\ FreshDrawCalls(grass.drawCalls,
          LAMBDA c : grass.visibleInstancesByType[c.type + 1][c.lod + 1])
    /\ \A t \in 1..Len(rocks.visibleInstancesByTypeLOD) : \A l \in 1..3 :
          rocks.visibleInstancesByTypeLOD[t][l] = << >>
              => ~rocks.instanceBuffersByType[t][l].fresh
    /\ \A g \in 1..Len(grass.visibleInstancesByType) :
          \A t \in 1..Len(grass.visibleInstancesByType[g]) :
              grass.visibleInstancesByType[g][t] = << >>
                  => ~grass.instanceBuffers[g][t].fresh

\* the places (chunk, position in the chunk) that hold the instance id
ChunkPlaces(chunks, id) ==
    { p \in UNION { { <<k, j>> : j \in 1..Len(chunks[k].instances) } : k \in 1..Len(chunks) } :
        chunks[p[1]].instances[p[2]].id = id }

ChunkMemberCount(chunks) ==
    Cardinality(UNION { { <<k, j>> : j \in 1..Len(chunks[k].instances) } : k \in 1..Len(chunks) })

\* an instance beyond a side of the world rectangle lies in a chunk of the
\* grid's border on that side
InEdgeChunk(inst, chunk, chunkSize) ==
    LET first == chunkSize - 2 * FieldHalf
        last == 2 * ((NumChunks(chunkSize) - 1) * chunkSize - FieldHalf) + chunkSize
    IN /\ inst.x < -FieldHalf => chunk.centerX2 = first
       /\ inst.x >= FieldHalf => chunk.centerX2 = last
       /\ inst.z < -FieldHalf => chunk.centerZ2 = first
       /\ inst.z >= FieldHalf => chunk.centerZ2 = last

ChunksHoldAll(allInstances, chunks, chunkSize) ==
    /\ ChunkMemberCount(chunks) = Len(allInstances)
    /\ \A i \in 1..Len(allInstances) :
          /\ Cardinality(ChunkPlaces(chunks, allInstances[i].id)) = 1
          /\ \A p \in ChunkPlaces(chunks, allInstances[i].id) :
                InEdgeChunk(allInstances[i], chunks[p[1]], chunkSize)

\* C12: once the chunks are built every instance of allInstances is stored
\* in exactly one chunk, the chunk member counts add up to the instance
\* count, and an instance outside the world rectangle is stored in a chunk
\* on the border of the grid, neither dropped nor duplicated.
C12_EveryInstanceInOneChunk ==
    /\ ChunksHoldAll(rocks.allInstances, rocks.chunks, rocks.chunkSize)
    /\ ChunksHoldAll(grass.allInstances, grass.chunks, grass.chunkSize)

\* MaxInst instances were organised into chunks, one of them outside the
\* world rectangle
C12_Witness ==
    /\ Len(rocks.allInstances) = MaxInst
    /\ \E i \in 1..Len(rocks.allInstances) : rocks.allInstances[i].z < -FieldHalf
    /\ ChunkMemberCount(rocks.chunks) = MaxInst

\* the draw calls recorded for one slot of one subsystem
CallsOf(drawCalls, a, b) ==
    { i \in 1..Len(drawCalls) : drawCalls[i].type = a /\ drawCalls[i].lod = b }

\* a slot whose creation failed is null and untouched and no draw call binds
\* it; a slot that exists and has visible instances is drawn by a draw()
SlotContract(buffer, visible, drawCalls, a, b, drawn) ==
    /\ buffer.failed => buffer = FailedBuffer /\ CallsOf(drawCalls, a, b) = {}
    /\ (drawn /\ buffer.exists /\ visible # << >>)
          => \E i \in CallsOf(drawCalls, a, b) : drawCalls[i].count = Len(visible)

\* C13: a (type, LOD) slot whose buffer creation failed at init stays null:
\* no later frame maps it, writes to it or records a draw call that binds it,
\* while every other slot with visible instances is still drawn.
C13_FailedSlotSkipped ==
    /\ \A t \in 1..Len(rocks.instanceBuffersByType) : \A l \in 1..3 :
          SlotContract(rocks.instanceBuffersByType[t][l],
                       rocks.visibleInstancesByTypeLOD[t][l], rocks.drawCalls,
                       t - 1, l - 1, rocks.lastCall = "draw")
    /\ \A g \in 1..Len(grass.instanceBuffers) : \A t \in 1..Len(grass.instanceBuffers[g]) :
          SlotContract(grass.instanceBuffers[g][t],
                       grass.visibleInstancesByType[g][t], grass.drawCalls,
                       g - 1, t - 1, grass.lastCall = "draw")

\* a draw() found visible instances in a slot whose buffer creation failed
\* and in a slot whose buffer exists, and drew the second
C13_Witness ==
    /\ rocks.lastCall = "draw"
    /\ \E t \in 1..Len(rocks.instanceBuffersByType) : \E l \in 1..3 :
          /\ rocks.instanceBuffersByType[t][l].failed
          /\ rocks.visibleInstancesByTypeLOD[t][l] # << >>
    /\ rocks.drawCalls # << >>

\* the members of Rocks and of HybridGrassField, without the fields the model
\* adds to remember the calls
RocksMembers(r) ==
    << r.rockTypes, r.viewDistance, r.chunkSize, r.allInstances, r.chunks,
       r.instancesByTypeLOD, r.visibleInstancesByTypeLOD, r.instanceBuffersByType >>

GrassMembers(f) ==
    << f.groups, f.viewDistance, f.chunkSize, f.allInstances, f.chunks,
       f.instancesByType, f.visibleInstancesByType, f.instanceBuffers >>

RocksEmptyPalette == rocks.initialized /\ rocks.rockTypes = 0
GrassEmptyPalette == grass.initialized /\ grass.groups = << >>

\* with an empty palette the subsystem holds nothing
EmptyPaletteHoldsNothing ==
    /\ RocksEmptyPalette =>
          /\ rocks.allInstances = << >> /\ rocks.chunks = << >>
          /\ rocks.instanceBuffersByType = << >> /\ rocks.drawCalls = << >>
    /\ GrassEmptyPalette =>
          /\ grass.allInstances = << >> /\ grass.chunks = << >>
          /\ grass.instanceBuffers = << >> /\ grass.drawCalls = << >>

\* update and draw leave the members as they are
EmptyPaletteMembersKept ==
    /\ RocksEmptyPalette => RocksMembers(rocks') = RocksMembers(rocks)
    /\ GrassEmptyPalette => GrassMembers(grass') = GrassMembers(grass)

\* C14 as stated: when every model fails to load, init leaves the subsystem
\* without instances, chunks and buffers, and every later update or draw
\* changes no subsystem state and issues no draw call.
C14_EmptyPaletteNoOp ==
    /\ [] EmptyPaletteHoldsNothing
    /\ [][ EmptyPaletteMembersKept
           /\ (GrassEmptyPalette => grass'.windTime = grass.windTime) ]_vars

\* C14: when every model fails to load, init leaves the subsystem without
\* instances, chunks and buffers; every later draw and Rocks::update changes
\* no member and issues no draw call, and HybridGrassField::update changes
\* nothing but windTime.
C14_EmptyPaletteNoOpButWind ==
    /\ [] EmptyPaletteHoldsNothing
    /\ [][ EmptyPaletteMembersKept ]_vars

\* a grass field none of whose groups loaded was updated and then drawn
C14_Witness ==
    /\ GrassEmptyPalette
    /\ grass.windTime > 0
    /\ grass.lastCall = "draw"

\* every instance within viewDistance of the culling position lies in a
\* chunk marked visible
NearInstancesVisible(chunks, cullPos, viewDistance) ==
    \A k \in 1..Len(chunks) : \A j \in 1..Len(chunks[k].instances) :
        LET inst == chunks[k].instances[j]
            dx == inst.x - cullPos.x
            dz == inst.z - cullPos.z
        IN dx * dx + dz * dz <= viewDistance * viewDistance => chunks[k].isVisible

\* C19: the chunk test is conservative for instances: after a culling pass
\* from camera position P every instance whose XZ distance to P is at most
\* viewDistance belongs to a chunk marked visible, wherever it lies inside
\* its chunk.
C19_CullingConservative ==
    /\ rocks.cullPos # << >> =>
          NearInstancesVisible(rocks.chunks, rocks.cullPos[1], rocks.viewDistance)
    /\ grass.cullPos # << >> =>
          NearInstancesVisible(grass.chunks, grass.cullPos[1], grass.viewDistance)

\* C20: after HybridGrassField::init generated its instances with at least
\* one group loaded, every instance has 0 <= groupIndex < number of loaded
\* groups and 0 <= typeIndex < number of loaded types of that group, also
\* when configured types or groups failed to load or a group has no types.
C20_GeneratedIndicesValid ==
    (grass.initPath = "generated" /\ grass.groups # << >>) =>
        \A inst \in HeldGrass :
            /\ 0 <= inst.groupIndex /\ inst.groupIndex < Len(grass.groups)
            /\ 0 <= inst.typeIndex
            /\ inst.typeIndex < grass.groups[inst.groupIndex + 1]

\* an instance without its frame-mutable field
WithoutLod(inst) == [ inst EXCEPT !.lodLevel = 0 ]

\* the chunks without their frame-mutable parts: the visibility flag and
\* the LOD level of the rock instances they hold
RockChunkMembers(chunks) ==
    [ k \in 1..Len(chunks) |->
        [ centerX2 |-> chunks[k].centerX2, centerZ2 |-> chunks[k].centerZ2,
          instances |-> [ i \in 1..Len(chunks[k].instances) |->
                            WithoutLod(chunks[k].instances[i]) ] ] ]

GrassChunkMembers(chunks) ==
    [ k \in 1..Len(chunks) |->
        [ centerX2 |-> chunks[k].centerX2, centerZ2 |-> chunks[k].centerZ2,
          instances |-> chunks[k].instances ] ]

RockCapacities(r) ==
    [ t \in 1..Len(r.instanceBuffersByType) |->
        [ l \in 1..3 |-> << r.instanceBuffersByType[t][l].exists,
                            r.instanceBuffersByType[t][l].capacity >> ] ]

GrassCapacities(f) ==
    [ g \in 1..Len(f.instanceBuffers) |->
        [ t \in 1..Len(f.instanceBuffers[g]) |->
            << f.instanceBuffers[g][t].exists, f.instanceBuffers[g][t].capacity >> ] ]

\* what a per-frame call leaves alone
RocksWriteOnce(r) ==
    << r.rockTypes, r.viewDistance, r.chunkSize, r.allInstances, RockChunkMembers(r.chunks),
       r.instancesByTypeLOD, RockCapacities(r) >>

GrassWriteOnce(f) ==
    << f.groups, f.viewDistance, f.chunkSize, f.allInstances, GrassChunkMembers(f.chunks),
       f.instancesByType, GrassCapacities(f) >>

FrameCallsKeepMembers ==
    /\ rocks.initialized => RocksWriteOnce(rocks') = RocksWriteOnce(rocks)
    /\ grass.initialized => GrassWriteOnce(grass') = GrassWriteOnce(grass)

\* C24: update, performChunkCulling and draw never change which instances a
\* chunk holds, allInstances, the persistent per-type buckets, the buffer
\* capacities or an instance's position, rotation, scale and type or group
\* index; they change only the isVisible flags, the visible buckets, the
\* buffer contents, the grass windTime and the LOD level of the rock
\* instances held in chunks.
C24_FrameCallsKeepMembers == [][FrameCallsKeepMembers]_vars

\* rocks were updated and drawn: an instance held in a chunk has left LOD 2
\* and sits in a visible bucket, while allInstances still has it at LOD 2
C24_Witness ==
    /\ rocks.lastCall = "draw"
    /\ \E t \in 1..rocks.rockTypes : \E l \in 1..2 :
          \E inst \in SeqRange(rocks.visibleInstancesByTypeLOD[t][l]) :
              \E i \in 1..Len(rocks.allInstances) :
                  /\ rocks.allInstances[i].id = inst.id
                  /\ rocks.allInstances[i].lodLevel = 2

\* the chunks form a grid of ceil(terrainSize / chunkSize) chunks a side, and
\* every point of the world rectangle lies in the square of some chunk
ChunkGridCovers(chunks, chunkSize) ==
    /\ Len(chunks) = CeilDiv(FieldSize, chunkSize) * CeilDiv(FieldSize, chunkSize)
    /\ \A x \in -FieldHalf..FieldHalf : \A z \in -FieldHalf..FieldHalf :
          \E k \in 1..Len(chunks) :
              /\ chunks[k].centerX2 - chunkSize <= 2 * x
              /\ 2 * x <= chunks[k].centerX2 + chunkSize
              /\ chunks[k].centerZ2 - chunkSize <= 2 * z
              /\ 2 * z <= chunks[k].centerZ2 + chunkSize

\* C25: both construction paths, organizeIntoChunks of initWithInstances and
\* the inline chunk creation of init, build a grid of ceil(terrainSizeX /
\* chunkSize) x ceil(terrainSizeZ / chunkSize) chunks, which covers the world
\* rectangle also when the world size is no multiple of chunkSize.
C25_ChunkGridCoversWorld ==
    /\ (rocks.initialized /\ rocks.rockTypes > 0) =>
          ChunkGridCovers(rocks.chunks, rocks.chunkSize)
    /\ (grass.initialized /\ grass.groups # << >>) =>
          ChunkGridCovers(grass.chunks, grass.chunkSize)

---------------------------------------------------------------------------
(* Claims about the game loop. *)

LogIndices(op) == { i \in 1..Len(frameLog) : frameLog[i].op = op }

\* C9 (as stated): in every gameplay frame the update completes before the
\* visibility pass, the visibility pass before the repack, and the repack
\* before any draw call recorded for that frame: no draw call of the frame is
\* recorded before any culling or repack of the frame.
C9_StrictFrameOrder ==
    /\ \A u \in LogIndices("update"), c \in LogIndices("cull") : u < c
    /\ \A c \in LogIndices("cull") \cup LogIndices("repack"), d \in LogIndices("draw") : c < d

\* C9 (amended): in every gameplay frame the update completes before every
\* visibility pass of the frame, so no culling uses LOD levels older than the
\* frame's update; and every call of Rocks::draw runs its visibility pass,
\* then its repack, then records its draw calls, so each draw call comes
\* after the culling and the repack of its own pass.
C9_OrderPerDrawCall ==
    /\ \A c \in LogIndices("cull") : \E u \in LogIndices("update") : u < c
    /\ \A u \in LogIndices("update"), c \in LogIndices("cull") : u < c
    /\ \A r \in LogIndices("repack") :
          \E c \in LogIndices("cull") : c < r /\ frameLog[c].pass = frameLog[r].pass
    /\ \A d \in LogIndices("draw") :
          /\ \E r \in LogIndices("repack") : r < d /\ frameLog[r].pass = frameLog[d].pass
          /\ \A c \in LogIndices("cull") \cup LogIndices("repack") :
                frameLog[c].pass = frameLog[d].pass => c < d

\* a gameplay frame recorded rock draw calls in the reflection pass and in
\* the main pass
C9_Witness ==
    /\ framePc = "finish"
    /\ \E d \in LogIndices("draw") : frameLog[d].pass = "reflection"
    /\ \E d \in LogIndices("draw") : frameLog[d].pass = "main"

\* what the instance buffer a draw call reads holds now
BufferOf(call) ==
    IF call.owner = "rocks"
    THEN rocks.instanceBuffersByType[call.type + 1][call.lod + 1]
    ELSE grass.instanceBuffers[call.type + 1][call.lod + 1]

ReadsWhatWasPacked(call) ==
    SubSeq(BufferOf(call).data, 1, Min(call.count, Len(BufferOf(call).data))) = call.records

\* C10: for every rock draw call, recorded after a successful repack, of a
\* submitted command list the GPU has
\* not executed yet, the instance buffer still holds the records the repack
\* before that draw call wrote: the CPU does not overwrite them before the
\* GPU has executed the draw.
C10_GpuReadsWhatWasPacked ==
    \A q \in 1..Len(gpuQueue) : \A i \in 1..Len(gpuQueue[q].draws) :
        (gpuQueue[q].draws[i].owner = "rocks" /\ gpuQueue[q].draws[i].fresh)
            => ReadsWhatWasPacked(gpuQueue[q].draws[i])


\* the instances of the chunks from chunk k on whose center lies within
\* viewDistance + chunkSize / 2 of the position P, in chunk order
RECURSIVE InstancesInRange(_, _, _, _, _)
InstancesInRange(chunks, k, P, viewDistance, chunkSize) ==
    IF k > Len(chunks) THEN << >>
    ELSE (IF ChunkInView(chunks[k], P, viewDistance, chunkSize)
          THEN chunks[k].instances ELSE << >>)
         \o InstancesInRange(chunks, k + 1, P, viewDistance, chunkSize)

\* the visible buckets as a function of the culling position, the chunk
\* membership and the LOD levels
BucketsFromPosition ==
    /\ (rocks.lastCall = "draw" /\ rocks.rockTypes > 0) =>
          \A t \in 1..rocks.rockTypes : \A l \in 1..3 :
              rocks.visibleInstancesByTypeLOD[t][l]
                  = SelectSeq(InstancesInRange(rocks.chunks, 1, rocks.cullPos[1],
                                               rocks.viewDistance, rocks.chunkSize),
                              LAMBDA inst : inst.typeIndex = t - 1 /\ inst.lodLevel = l - 1)
    /\ (grass.lastCall = "draw" /\ grass.groups # << >>) =>
          \A g \in 1..Len(grass.groups) : \A t \in 1..grass.groups[g] :
              grass.visibleInstancesByType[g][t]
                  = SelectSeq(InstancesInRange(grass.chunks, 1, grass.cullPos[1],
                                               grass.viewDistance, grass.chunkSize),
                              LAMBDA inst : inst.groupIndex = g - 1 /\ inst.typeIndex = t - 1)

\* a draw() that follows a draw() from the same position leaves the visible
\* buckets as they were
SamePositionSameBuckets ==
    /\ (rocks.lastCall = "draw" /\ rocks'.lastCall = "draw" /\ rocks'.cullPos = rocks.cullPos)
          => rocks'.visibleInstancesByTypeLOD = rocks.visibleInstancesByTypeLOD
    /\ (grass.lastCall = "draw" /\ grass'.lastCall = "draw" /\ grass'.cullPos = grass.cullPos)
          => grass'.visibleInstancesByType = grass.visibleInstancesByType

\* C23: the visible buckets after performChunkCulling(P) depend on P, the
\* chunk membership and the current LOD levels only: every bucket is
\* cleared at the start of the call, so nothing of an earlier frame or draw
\* call stays in it, and a second call with the same P, as the main pass
\* after the reflection pass, yields the same buckets.
C23_BucketsRecomputed == []BucketsFromPosition /\ [][SamePositionSameBuckets]_vars

\* the main pass has culled after the reflection pass of the same frame, in
\* a frame after the first, and a rock bucket holds an instance
C23_Witness ==
    /\ framePc = "finish"
    /\ fenceValue[0] + fenceValue[1] >= 1
    /\ \E i, j \in 1..Len(frameLog) :
          /\ i < j
          /\ frameLog[i] = [op |-> "cull", pass |-> "reflection"]
          /\ frameLog[j] = [op |-> "cull", pass |-> "main"]
    /\ \E t \in 1..rocks.rockTypes : \E l \in 1..3 :
          rocks.visibleInstancesByTypeLOD[t][l] # << >>
---------------------------------------------------------------------------
(* Claims about modelState::update. *)

\* one call of update()
UpdateCall == \E w \in WindowInputs, dt \in DtValues : UpdateGunState(w, dt)

\* between the update that starts a reload and the one that finishes it
Reloading == modelState.action = "Reload"

\* an update made from the start of a reload to its end: one that starts a
\* reload, or one made while the reload runs
ReloadUpdate ==
    /\ UpdateCall
    /\ lastUpdate'.started \/ Reloading

\* what an update made during a reload does: no shot; not zoomed while the
\* reload runs; at its end the zoom is on exactly when the zoom button was
\* down at the start and is down now, and the action is None again
ReloadUpdateEffect ==
    ReloadUpdate =>
        /\ ~lastUpdate'.result
        /\ IF lastUpdate'.finished
           THEN /\ modelState'.action = "None"
                /\ modelState'.zoomActive
                       <=> (lastUpdate'.zoomAtStart /\ lastUpdate'.w.zoom)
           ELSE /\ modelState'.action = "Reload"
                /\ ~modelState'.zoomActive

\* C26: from the update in which a reload starts to the update in which the
\* reload animation finishes, update() returns false and zoomActive is
\* false; at the finish zoomActive is true exactly when the zoom button was
\* down at the start of the reload and is still down, and the action is back
\* to None, so that the next update handles locomotion and fire.
C26_ReloadPriority ==
    /\ [](Reloading => ~modelState.zoomActive /\ ~lastUpdate.result)
    /\ [][ReloadUpdateEffect]_vars

\* a reload finished with the fire button down, and the zoom came back
C26_Witness ==
    /\ lastUpdate.finished
    /\ lastUpdate.w.fire
    /\ lastUpdate.zoomAtStart
    /\ modelState.zoomActive
    /\ modelState.action = "None"

\* a reload ran on while the fire and zoom buttons were down
C26_WitnessRunning ==
    /\ Reloading
    /\ lastUpdate.called /\ ~lastUpdate.started /\ ~lastUpdate.finished
    /\ lastUpdate.w.fire /\ lastUpdate.w.zoom

\* an update starts a reload only if no reload was started before or an
\* update since the latest start saw the reload key released
ReloadOneShot ==
    (UpdateCall /\ lastUpdate'.started) =>
        /\ lastUpdate'.w.reload
        /\ ~lastUpdate.everStarted \/ lastUpdate.releasedSince

\* C27: while the reload key stays down over consecutive update() calls at
\* most one reload starts; another reload starts only after an update() that
\* saw the key released.
C27_ReloadOneShot == [][ReloadOneShot]_vars

\* a second reload was started, after the key was released, and the key was
\* then held on without a third
C27_Witness ==
    /\ lastUpdate.everStarted
    /\ ~lastUpdate.started
    /\ lastUpdate.w.reload
    /\ ~lastUpdate.releasedSince
    /\ modelState.action = "None"
    /\ ~modelState.reloadArmed

---------------------------------------------------------------------------
(* Claims about the player movement. *)

\* checkLakeCollision or checkRockCollision is true at the position
Collides(position) ==
    \/ CheckLakeCollision(position, PlayerRadius)
    \/ CheckRockCollision(position, rockInstances, PlayerRadius)

\* a movement step was made
Moved == lastMove.branch # "none"

\* C29: after the movement step of a frame the committed camera position
\* collides neither with the lake nor with a rock, given that the position
\* at the start of the frame did not, whichever branch resolved the move.
C29_CommittedPositionFree ==
    (Moved /\ ~lastMove.startBlocked) => ~Collides(camPos)

\* the position is inside the terrain less the border of one unit of length
InsideBorder(position) ==
    /\ position.x >= -MoveHalf + WorldBorder /\ position.x <= MoveHalf - WorldBorder
    /\ position.z >= -MoveHalf + WorldBorder /\ position.z <= MoveHalf - WorldBorder

\* C30: after the movement step of a frame the camera lies within the world
\* rectangle less the border, x in [-sizeX/2 + 1, sizeX/2 - 1] and z in
\* [-sizeZ/2 + 1, sizeZ/2 - 1], also when the sliding branch resolved it.
C30_CameraInsideBorder == Moved => InsideBorder(camPos)

\* the same for the frames the sliding branch did not resolve
C30_FreeMoveInsideBorder == (Moved /\ lastMove.branch = "free") => InsideBorder(camPos)

\* a frame resolved by the sliding branch from a position inside the border
\* that did not collide
SlideFromInside ==
    /\ lastMove.branch = "slide"
    /\ lastMove.startInside
    /\ ~lastMove.startBlocked

C29_SlideKeepsFree == SlideFromInside => ~Collides(camPos)

C29_FreeKeepsFree ==
    (lastMove.branch = "free" /\ ~lastMove.startBlocked) => ~Collides(camPos)

=============================================================================
